---- MODULE Spec2Model ----
(***************************************************************************)
(* Model of qmaru/minireq: the HttpClient transport cache (getTransport,   *)
(* clearTransport, the transport-affecting setters) and the retry loop     *)
(* (doWithRetry) driven by RequestWithMethod.                              *)
(*                                                                         *)
(* Goroutines are the processes of Procs.  Every access to the shared       *)
(* fields of the client (atomic.Pointer Load/Swap, atomic.Value            *)
(* Load/Store) and every client.Do is one step of one goroutine; the code  *)
(* that follows such an access and touches only the goroutine's locals is  *)
(* part of the same step.  CloseIdleConnections only adds to the count of  *)
(* the handle it is called on, which no step reads, so it belongs to the   *)
(* step of the Swap before it.                                             *)
(***************************************************************************)
EXTENDS Integers, Sequences, FiniteSets, TLC

VARIABLES
    mode,       \* the callers of a run: "sse" a reader of an event stream and its consumer; "conc" goroutines interleave; "proxy" goroutines calling the proxy setters interleave; "seq", "retry", "body", "over", "any" one call at a time; "resp" accessors of a response; "fn" the functions of retry.go and reqOptions
    cfg,        \* HttpClient.cfg       (atomic.Value holding a transportConfig)
    transport,  \* HttpClient.transport (atomic.Pointer[http.Transport]); Nil or an index of handles
    handles,    \* every http.Transport constructed so far, by address
    Retry,      \* HttpClient.Retry     (*RetryConfig or Nil)
    pc,         \* position of every goroutine
    loc,        \* local variables of every goroutine's current call
    call,       \* history: facts about the current / last getTransport call of each goroutine
    sent,       \* history: the attempts the current / last request of each goroutine has sent
    events,     \* history: the RetryEvents the observer received during that request
    result,     \* the (response, error) pair the last doWithRetry of each goroutine returned
    gen,        \* history: number of setter calls started so far
    nops,       \* history: number of calls started so far
    hist,       \* history: the last two completed calls, oldest first
    published,  \* history: handles that have been stored in HttpClient.transport
    discarded,  \* history: handles whose builder found another handle already published
    returned,   \* history: number of setter calls that have returned
    written,    \* history: per configuration field, the values setters that returned have assigned
    steps,      \* history: what doWithRetry did during the current / last request of each goroutine, in order
    res,        \* the MiniResponse the accessors of response.go are called on, with the history of those calls
    timeout,    \* HttpClient.timeout      (atomic.Int64, seconds)
    autoRedirect, \* HttpClient.autoRedirect (atomic.Bool)
    client,     \* the http.Client the current / last request of each goroutine was sent with
    fn,         \* the last application of a function of retry.go or of reqOptions: function, arguments, result
    sse         \* an SSEReader over a stream, the goroutine and the channel of its Events, and the consumer

vars == <<mode, cfg, transport, handles, Retry, pc, loc, call, sent, events,
          result, gen, nops, hist, published, discarded, returned, written, steps, res,
          timeout, autoRedirect, client, fn, sse>>

\* what getTransport, the transport setters and doWithRetry never assign
others == <<mode, res, fn, sse, timeout, autoRedirect>>

(***************************************************************************)
(* Bounds                                                                  *)
(***************************************************************************)
NumProcs == 3
MaxHandles == 3
MaxSeqCalls == 3
MaxBodyRetries == 2
MaxAccessorCalls == 4
MaxAnyCalls == 5
MaxAttempt == 65
MaxOptions == 3
MaxPolicies == 2

Procs == 1..NumProcs

\* the goroutines of the run call the client at the same time
Interleaved == mode \in {"conc", "proxy"}
Nil == 0

(***************************************************************************)
(* transportConfig and NewClient                                           *)
(***************************************************************************)
DefaultTLSHandshakeTimeout == 30

Fields == {"Insecure", "HttpProxyAddress", "Socks5ProxyAddress",
           "TLSHandshakeTimeout", "HTTP2Enabled", "MaxIdleConns",
           "MaxIdleConnsPerHost", "IdleConnTimeout", "ResponseHeaderTimeout"}

\* a default configuration with HTTP/2 off
defaultCfgHTTP1 ==
    [Insecure |-> FALSE, HttpProxyAddress |-> "", Socks5ProxyAddress |-> "",
     TLSHandshakeTimeout |-> DefaultTLSHandshakeTimeout, HTTP2Enabled |-> FALSE,
     MaxIdleConns |-> 0, MaxIdleConnsPerHost |-> 0, IdleConnTimeout |-> 0,
     ResponseHeaderTimeout |-> 0]

defaultCfg ==
    [Insecure |-> FALSE, HttpProxyAddress |-> "", Socks5ProxyAddress |-> "",
     TLSHandshakeTimeout |-> DefaultTLSHandshakeTimeout, HTTP2Enabled |-> TRUE,
     MaxIdleConns |-> 0, MaxIdleConnsPerHost |-> 0, IdleConnTimeout |-> 0,
     ResponseHeaderTimeout |-> 0]

\* proxy strings the callers pass; the last of each pair is malformed
GoodSocks5 == "127.0.0.1:1080"
BadSocks5 == "localhost"
GoodHttpProxy == "http://127.0.0.1:1080"
BadHttpProxy == "%zz"

\* setS5Proxy: the address must match ipv4:port
Socks5Accepted(address) == address = GoodSocks5

\* URL.Parse on the proxy address
URLParses(u) == u # BadHttpProxy

(***************************************************************************)
(* http.Transport as getTransport builds it                                *)
(***************************************************************************)
\* the fields of the http.Transport literal and the conditional assignments
BuildTransport(c) ==
    [InsecureSkipVerify    |-> c.Insecure,
     TLSHandshakeTimeout   |-> c.TLSHandshakeTimeout,
     ForceAttemptHTTP2     |-> c.HTTP2Enabled,
     Proxy                 |-> IF c.HttpProxyAddress # "" /\ URLParses(c.HttpProxyAddress)
                               THEN c.HttpProxyAddress ELSE "",
     DialContext           |-> IF c.Socks5ProxyAddress # "" /\ Socks5Accepted(c.Socks5ProxyAddress)
                               THEN c.Socks5ProxyAddress ELSE "",
     MaxIdleConns          |-> IF c.MaxIdleConns > 0 THEN c.MaxIdleConns ELSE 0,
     MaxIdleConnsPerHost   |-> IF c.MaxIdleConnsPerHost > 0 THEN c.MaxIdleConnsPerHost ELSE 0,
     IdleConnTimeout       |-> IF c.IdleConnTimeout > 0 THEN c.IdleConnTimeout ELSE 0,
     ResponseHeaderTimeout |-> IF c.ResponseHeaderTimeout > 0 THEN c.ResponseHeaderTimeout ELSE 0]

\* a new http.Transport: its settings, the configuration snapshot it was built
\* from (history) and the number of CloseIdleConnections calls it has received
NewHandle(c) == [settings |-> BuildTransport(c), from |-> c, closeIdle |-> 0]

\* t.CloseIdleConnections()
CloseIdleConnections(hs, t) == [hs EXCEPT ![t].closeIdle = @ + 1]

(***************************************************************************)
(* The setters: what each assigns to its copy of the configuration         *)
(***************************************************************************)
\* a setter that assigns its own field only
ApplySetterKeepsOther(c, f, v) == [c EXCEPT ![f] = v]

\* SetSocks5Proxy .. SetTLSHandshakeTimeout, between loadConfig and storeConfig
ApplySetter(c, f, v) ==
    CASE f = "Socks5ProxyAddress" ->
            IF v # "" THEN [c EXCEPT !.Socks5ProxyAddress = v, !.HttpProxyAddress = ""]
                      ELSE [c EXCEPT !.Socks5ProxyAddress = v]
      [] f = "HttpProxyAddress" ->
            IF v # "" THEN [c EXCEPT !.HttpProxyAddress = v, !.Socks5ProxyAddress = ""]
                      ELSE [c EXCEPT !.HttpProxyAddress = v]
      [] OTHER -> [c EXCEPT ![f] = v]

\* the fields a setter call assigns, with the value each receives
Assigned(f, v) ==
    IF f = "Socks5ProxyAddress" /\ v # ""
        THEN {<<"Socks5ProxyAddress", v>>, <<"HttpProxyAddress", "">>}
    ELSE IF f = "HttpProxyAddress" /\ v # ""
        THEN {<<"HttpProxyAddress", v>>, <<"Socks5ProxyAddress", "">>}
    ELSE {<<f, v>>}

\* arguments the callers pass to each setter
SetterArgs(f) ==
    CASE f \in {"Insecure", "HTTP2Enabled"} -> BOOLEAN
      [] f = "Socks5ProxyAddress" -> {"", GoodSocks5, BadSocks5}
      [] f = "HttpProxyAddress" -> {"", GoodHttpProxy, BadHttpProxy}
      [] f = "TLSHandshakeTimeout" -> {10, DefaultTLSHandshakeTimeout}
      [] OTHER -> {0, 10}

\* the setter calls made: interleaved, SetInsecure(true) and SetHTTP2(false) (all
\* nine setters have the same steps), or the two proxy setters with every
\* value above; one call at a time, every setter with every value above
SetterCalls ==
    CASE mode = "conc" -> {<<"Insecure", TRUE>>, <<"HTTP2Enabled", FALSE>>}
      [] mode = "proxy" -> UNION {{<<f, v>> : v \in SetterArgs(f)} :
                                     f \in {"Socks5ProxyAddress", "HttpProxyAddress"}}
      [] mode = "any" -> {<<"Insecure", TRUE>>}
      [] OTHER -> UNION {{<<f, v>> : v \in SetterArgs(f)} : f \in Fields}

\* line 84: h.timeout.Store(30); line 509: timeout := int64(30)
DefaultTimeout == 30

\* the arguments the callers pass to SetTimeout: that of TestAnySet, and zero
TestTimeout == 15
SetTimeoutArgs == {0, TestTimeout}

(***************************************************************************)
(* retry.go: RetryConfig, the built-in predicates and delays               *)
(***************************************************************************)
MaxRetriesBound == 3
FixedDelayMs == 1000
DefaultBaseDelayMs == 100

\* a nil *http.Response, and a response with its status and its body: the bytes
\* the server sends, the number of them read so far, and whether Body.Close()
\* was called
NilResp == [nil |-> TRUE, StatusCode |-> 0, closed |-> FALSE, body |-> <<>>, read |-> 0]
Response(code, body) ==
    [nil |-> FALSE, StatusCode |-> code, closed |-> FALSE, body |-> body, read |-> 0]
NoErr == ""
TransportErr == "transport error"

\* the body of the responses client.Do returns
JSONBody == <<"{", "}">>

\* a range predicate that leaves out its upper end
RangeWithoutMax(min, max, resp, err) ==
    IF err # NoErr THEN TRUE
    ELSE IF resp.nil THEN FALSE
    ELSE resp.StatusCode >= min /\ resp.StatusCode < max

\* RetryPolicyWithStatusRange(min, max)
RetryPolicyWithStatusRange(min, max, resp, err) ==
    IF err # NoErr THEN TRUE
    ELSE IF resp.nil THEN FALSE
    ELSE resp.StatusCode >= min /\ resp.StatusCode <= max

\* RetryPolicyWithStatusCodes(statusCodes...)
RetryPolicyWithStatusCodes(statusCodes, resp, err) ==
    IF err # NoErr THEN TRUE
    ELSE IF resp.nil THEN FALSE
    ELSE resp.StatusCode \in statusCodes

\* the status codes TestRetry passes
TestStatusCodes == {500, 502, 503, 504, 408, 429}

\* var defaultRetryPolicy = RetryPolicyWithStatusRange(500, 599)
defaultRetryPolicy(resp, err) == RetryPolicyWithStatusRange(500, 599, resp, err)

\* RetryPolicyWithErrorCheck(check); check is kept as the set of the errors it
\* answers true for
RetryPolicyWithErrorCheck(check, resp, err) ==
    IF err # NoErr THEN err \in check
    ELSE FALSE

\* the predicate a policy value stands for, applied: the policies are the
\* values the constructors of retry.go return
PolicyAnswer(policy, resp, err) ==
    CASE policy.kind = "range" ->
             RetryPolicyWithStatusRange(policy.min, policy.max, resp, err)
      [] policy.kind = "codes" ->
             RetryPolicyWithStatusCodes(policy.statusCodes, resp, err)
      [] policy.kind = "check" ->
             RetryPolicyWithErrorCheck(policy.check, resp, err)

RECURSIVE RetryCombinePolicies(_, _, _)

\* a combinator that asks its first policy only
CombineFirstOnly(policies, resp, err) ==
    IF policies = <<>> THEN FALSE
    ELSE PolicyAnswer(Head(policies), resp, err)

\* RetryCombinePolicies(policies...): the policies in order, true at the first
\* that answers true, false past the last
RetryCombinePolicies(policies, resp, err) ==
    IF policies = <<>> THEN FALSE
    ELSE IF PolicyAnswer(Head(policies), resp, err) THEN TRUE
    ELSE RetryCombinePolicies(Tail(policies), resp, err)

\* 2^n, the shift 1 << n
RECURSIVE Pow2(_)
Pow2(n) == IF n <= 0 THEN 1 ELSE 2 * Pow2(n - 1)

\* RetryExponentialDelay(baseDelay, jitterRatio) without jitter, in milliseconds,
\* for the attempts of the retry loop, whose delays are far below 2^63 ns
ExponentialDelay(baseDelay, attempt) ==
    baseDelay * Pow2((IF attempt <= 0 THEN 1 ELSE attempt) - 1)

\* RetryExponentialDelay(100ms, 0.1): the factor 1 + (rand*2-1)*0.1 lies in
\* [0.9, 1.1); the lowest value, the middle and the highest whole millisecond
defaultRetryDelay(attempt) ==
    LET d == ExponentialDelay(DefaultBaseDelayMs, attempt)
    IN  {(d * 9) \div 10, d, (d * 11) \div 10 - 1}

\* A time.Duration is an int64 count of nanoseconds. It is kept as the set of
\* the positions of its one bits in two's complement, position 63 the sign.
Int64Width == 64
Millisecond == 1000000

\* the bits of a natural number below 2^31
Int64Of(n) == {i \in 0..30 : (n \div Pow2(i)) % 2 = 1}

\* x << k on int64: the bits moved up, those past the width lost; a count of
\* 64 or more leaves 0
Shl64(x, k) == {i + k : i \in x} \cap (0..(Int64Width - 1))

\* x + y on int64, wrapping: position i takes a carry when a lower position j
\* has two ones and every position between them has at least one
Carry64(x, y, i) ==
    \E j \in 0..(i - 1) :
        /\ j \in x /\ j \in y
        /\ \A k \in (j + 1)..(i - 1) : k \in x \/ k \in y
Add64(x, y) ==
    {i \in 0..(Int64Width - 1) : ((i \in x) # (i \in y)) # Carry64(x, y, i)}

\* x * y on int64, wrapping: the sum of x << j over the one bits j of y
RECURSIVE Mul64(_, _)
Mul64(x, y) ==
    IF y = {} THEN {}
    ELSE LET j == CHOOSE b \in y : \A c \in y : b <= c
         IN  Add64(Shl64(x, j), Mul64(x, y \ {j}))

\* x < 0 and x < y on int64
Negative64(x) == (Int64Width - 1) \in x
Less64(x, y) ==
    /\ x # y
    /\ IF Negative64(x) # Negative64(y) THEN Negative64(x)
       ELSE LET diff == (x \ y) \cup (y \ x)
                top  == CHOOSE b \in diff : \A c \in diff : c <= b
            IN  top \in y

\* x - y on int64, wrapping: position i borrows when a lower position j has a
\* 0 over a 1 and no position between them has a 1 over a 0
Borrow64(x, y, i) ==
    \E j \in 0..(i - 1) :
        /\ j \notin x /\ j \in y
        /\ \A k \in (j + 1)..(i - 1) : ~(k \in x /\ k \notin y)
Sub64(x, y) ==
    {i \in 0..(Int64Width - 1) : ((i \in x) # (i \in y)) # Borrow64(x, y, i)}
Neg64(x) == Sub64({}, x)

\* the magnitude of x as an unsigned 64-bit number, and x < y on such numbers
Abs64(x) == IF Negative64(x) THEN Neg64(x) ELSE x
ULess64(x, y) ==
    /\ x # y
    /\ LET diff == (x \ y) \cup (y \ x)
           top  == CHOOSE b \in diff : \A c \in diff : c <= b
       IN  top \in y

\* long division of x by y, unsigned, y not 0, over the positions hi down to
\* lo: r is the remainder of the bits above hi, down the remainder with the
\* bit brought down; the quotient bits found and the remainder left
RECURSIVE UDivBits(_, _, _, _, _)
UDivBits(x, y, hi, lo, r) ==
    IF hi < lo THEN [q |-> {}, r |-> r]
    ELSE LET down == Shl64(r, 1) \cup (IF hi \in x THEN {0} ELSE {})
             fits == ~ULess64(down, y)
             rest == UDivBits(x, y, hi - 1, lo, IF fits THEN Sub64(down, y) ELSE down)
         IN  [q |-> (IF fits THEN {hi} ELSE {}) \cup rest.q, r |-> rest.r]

\* the division in four runs of sixteen positions, each from the remainder of
\* the one before
UDiv64(x, y) ==
    LET a == UDivBits(x, y, 63, 48, {})
        b == UDivBits(x, y, 47, 32, a.r)
        c == UDivBits(x, y, 31, 16, b.r)
        d == UDivBits(x, y, 15, 0, c.r)
    IN  a.q \cup b.q \cup c.q \cup d.q

\* x / y on int64, y not 0: the quotient truncated toward zero
Div64(x, y) ==
    LET q == UDiv64(Abs64(x), Abs64(y))
    IN  IF Negative64(x) # Negative64(y) THEN Neg64(q) ELSE q

\* time.Second in nanoseconds and time.Minute as an int64
Second == 1000 * Millisecond
Minute == Mul64(Int64Of(Second), Int64Of(60))

\* what a function that returns (time.Duration, error) does: it returns a
\* value, returns an error, or panics with an integer divide by zero
Value(v) == [val |-> v, err |-> NoErr, panics |-> FALSE]
Failure(e) == [val |-> {}, err |-> e, panics |-> FALSE]
DivideByZero == [val |-> {}, err |-> NoErr, panics |-> TRUE]
RPMErr == "rpm must be > 0"
MaxRetriesErr == "maxRetries must > 0"

\* RPMToMinInterval(rpm)
RPMToMinInterval(rpm) ==
    IF rpm <= 0 THEN Failure(RPMErr)
    ELSE Value(Div64(Minute, Int64Of(rpm)))

\* BackoffBaseForWindow(window, maxRetries), window an int64: the divisor is
\* time.Duration(1 << (maxRetries - 1)), a shift of an int64
BackoffBaseForWindow(window, maxRetries) ==
    IF maxRetries <= 0 THEN Failure(MaxRetriesErr)
    ELSE LET divisor == Shl64(Int64Of(1), maxRetries - 1)
         IN  IF divisor = {} THEN DivideByZero
             ELSE Value(Div64(window, divisor))

\* the delay RetryExponentialDelay(base, 0) gives for an attempt, base an int64
DelayOfBase(base, attempt) ==
    LET a == IF attempt <= 0 THEN 1 ELSE attempt
    IN  Mul64(base, Shl64(Int64Of(1), a - 1))

\* RetryExponentialDelay(baseDelay, 0)(attempt), baseDelay in nanoseconds:
\* delay := baseDelay * (1 << (attempt - 1)), both operands time.Duration
RetryExponentialDelay(baseDelay, attempt) ==
    LET a == IF attempt <= 0 THEN 1 ELSE attempt
    IN  Mul64(Int64Of(baseDelay), Shl64(Int64Of(1), a - 1))

\* RetryLinearDelay(baseDelay), in milliseconds
LinearDelay(baseDelay, attempt) == baseDelay * (IF attempt <= 0 THEN 1 ELSE attempt)

\* the delays the retryDelay in use may return for an attempt: RetryFixedDelay
\* and RetryLinearDelay of the duration the callers pass, or the default
RetryDelayValues(kind, attempt) ==
    CASE kind = "fixed" -> {FixedDelayMs}
      [] kind = "linear" -> {LinearDelay(FixedDelayMs, attempt)}
      [] OTHER -> defaultRetryDelay(attempt)

\* the RetryConfig values callers assign to client.Retry; "nil" is a nil field
NilRetry == [nil |-> TRUE, MaxRetries |-> 0, RetryPolicy |-> "nil",
             RetryDelay |-> "nil", OnRetry |-> "nil"]

RetryConfigs ==
    {NilRetry} \cup
    [nil : {FALSE}, MaxRetries : (-1)..MaxRetriesBound,
     RetryPolicy : {"nil", "codes"}, RetryDelay : {"nil", "fixed"},
     OnRetry : {"nil", "log"}]

\* the RetryConfig values of the calls made with a request body
BodyRetryConfigs ==
    {NilRetry} \cup
    [nil : {FALSE}, MaxRetries : 0..MaxBodyRetries,
     RetryPolicy : {"codes"}, RetryDelay : {"linear"}, OnRetry : {"log"}]

\* the configuration of TestRetry with one retry
ConcRetry == [nil |-> FALSE, MaxRetries |-> 1, RetryPolicy |-> "codes",
              RetryDelay |-> "fixed", OnRetry |-> "log"]

\* what client.Do may return: a response with one of these statuses, or an error
Statuses ==
    CASE mode = "retry" -> {200, 404, 429, 500, 502}
      [] mode = "body" -> {200, 500}
      [] OTHER -> {200}

\* doWithRetry lines 301-324: the predicate and the delay the loop runs with
retryPolicyOf(r, resp, err) ==
    IF ~r.nil /\ r.RetryPolicy = "codes"
        THEN RetryPolicyWithStatusCodes(TestStatusCodes, resp, err)
        ELSE defaultRetryPolicy(resp, err)
retryDelayOf(r) == IF ~r.nil /\ r.RetryDelay # "nil" THEN r.RetryDelay ELSE "default"

(***************************************************************************)
(* reqOptions: the body options and the request they leave                 *)
(***************************************************************************)
\* the maps the callers pass (FormKV, JSONData, FormData.Values), as lists of
\* pairs in key order
NoPairs == <<>>
OnePair == <<[k |-> "foo", v |-> "bar"]>>
TwoPairs == <<[k |-> "a", v |-> "b"], [k |-> "foo", v |-> "bar"]>>
PairLists == {NoPairs, OnePair, TwoPairs}

\* what FormData.Files holds under "file1": no entry, the path of a readable
\* file, a path os.Open fails on, a path whose read fails, a *FileInMemory, a
\* value of another type
FileKinds == {"none", "path", "missing", "unreadable", "memory", "other"}
FileContent == <<"x", "y">>

\* the errors of RequestWithMethod before anything is sent, and of GetBody
ParseErr == "parse url"
OpenErr == "open file"
ReadErr == "read file"
UnsupportedErr == "unsupported file type"
MarshalErr == "json: unsupported type"
RewindErr == "failed to reset request body"

\* an option list without body option, and the body options
NoBody == [kind |-> "none"]
BodyOptions ==
    [kind : {"FormKV"}, pairs : PairLists, file : {"none"}, marshals : {TRUE}] \cup
    [kind : {"JSONData"}, pairs : PairLists, file : {"none"}, marshals : BOOLEAN] \cup
    [kind : {"FormData"}, pairs : PairLists, file : FileKinds, marshals : {TRUE}]

\* the parts joined with the separator between them
RECURSIVE Join(_, _)
Join(parts, sep) ==
    IF parts = <<>> THEN <<>>
    ELSE IF Len(parts) = 1 THEN parts[1]
    ELSE parts[1] \o <<sep>> \o Join(Tail(parts), sep)

\* the orders in which range visits the entries of a map
Orders(pairs) ==
    {t \in [1..Len(pairs) -> {pairs[i] : i \in 1..Len(pairs)}] :
        \A i, j \in 1..Len(pairs) : i # j => t[i] # t[j]}

\* query.Encode(): key=value joined by &, in key order
Encode(pairs) == Join([i \in 1..Len(pairs) |-> <<pairs[i].k, "=", pairs[i].v>>], "&")

\* json.Marshal of a map: an object with its keys in order
Marshal(pairs) ==
    <<"{">> \o Join([i \in 1..Len(pairs) |-> <<"\"", pairs[i].k, "\"", ":",
                                              "\"", pairs[i].v, "\"">>], ",") \o <<"}">>

\* lines 194-244: the multipart body, the fields in the order range visited
\* them, then the file part, then the closing boundary
Multipart(fields, file) ==
    Join([i \in 1..Len(fields) |-> <<"--boundary", "field", fields[i].k, fields[i].v>>], "\r\n")
    \o (IF file \in {"path", "memory"} THEN <<"--boundary", "file", "file1">> \o FileContent
                                       ELSE <<>>)
    \o <<"--boundary--">>

\* the error reqOptions returns for an option, NoErr when it returns none
OptionError(o) ==
    CASE o.kind = "FormData" /\ o.file = "missing" -> OpenErr
      [] o.kind = "FormData" /\ o.file = "unreadable" -> ReadErr
      [] o.kind = "FormData" /\ o.file = "other" -> UnsupportedErr
      [] o.kind = "JSONData" /\ ~o.marshals -> MarshalErr
      [] OTHER -> NoErr

\* the buffers a body option may materialize
Materialized(o) ==
    CASE o.kind = "FormKV" -> {Encode(o.pairs)}
      [] o.kind = "JSONData" -> {Marshal(o.pairs)}
      [] o.kind = "FormData" -> {Multipart(t, o.file) : t \in Orders(o.pairs)}
      [] OTHER -> {<<>>}

\* bytes.Reader, strings.Reader: the bytes and the read position
NewReader(buf) == [buf |-> buf, pos |-> 0]
ReaderLen(r) == Len(r.buf) - r.pos
Read(r, n) == [r EXCEPT !.pos = @ + n]

\* lines 492-496: a request without body option has neither Body nor GetBody
NoRequest == [GetBody |-> "nil", ContentLength |-> 0]

\* the request after reqOptions: with a body option, Body, the snapshot GetBody
\* copies, the declared ContentLength and GetBody; failAt is the number of the
\* GetBody call in doWithRetry that returns an error (0: none)
RequestOf(o, buf) ==
    IF o.kind = "none" THEN NoRequest
    ELSE [Body          |-> NewReader(buf),
          snapshot      |-> NewReader(buf),
          ContentLength |-> ReaderLen(NewReader(buf)),
          GetBody       |-> "copy",
          failAt        |-> 0]

\* the body of a request that has none
NilReader == NewReader(<<>>)

\* a request with a body and no GetBody, as a caller of doWithRetry may build
\* one around a reader of its own
StreamRequest(buf) ==
    [Body |-> NewReader(buf), ContentLength |-> Len(buf), GetBody |-> "nil"]

\* request.Body != nil
HasBody(request) == "Body" \in DOMAIN request

\* http.CanonicalHeaderKey, on the keys the callers use
CanonicalHeaderKey(k) ==
    CASE k = "x-a" -> "X-A"
      [] k = "content-type" -> "Content-Type"
      [] OTHER -> k

\* a Header.Set that leaves a key it finds as it is
HeaderKeepsFirst(h, key, value) ==
    IF \E e \in h : e[1] = CanonicalHeaderKey(key) THEN h
    ELSE h \cup {<<CanonicalHeaderKey(key), value>>}

\* request.Header.Set(key, value); a Header is the set of its <<key, value>>
HeaderSet(h, key, value) ==
    {e \in h : e[1] # CanonicalHeaderKey(key)} \cup {<<CanonicalHeaderKey(key), value>>}

\* the Header after Set was called for every entry of a map, in the order
\* range visited them
RECURSIVE HeaderSetAll(_, _)
HeaderSetAll(h, pairs) ==
    IF pairs = <<>> THEN h
    ELSE HeaderSetAll(HeaderSet(h, Head(pairs).k, Head(pairs).v), Tail(pairs))

\* request.SetBasicAuth: "Basic " and base64 of username:password
BasicAuth(username, password) ==
    CASE username = "postman" /\ password = "password" -> "Basic cG9zdG1hbjpwYXNzd29yZA=="
      [] username = "alice" /\ password = "secret" -> "Basic YWxpY2U6c2VjcmV0"
      [] OTHER -> "Basic Og=="

\* the Content-Type a body option sets
ContentTypeOf(t) ==
    CASE t.kind = "FormKV" -> "application/x-www-form-urlencoded"
      [] t.kind = "JSONData" -> "application/json"
      [] OTHER -> "multipart/form-data; boundary=boundary"

BodyKinds == {"FormKV", "JSONData", "FormData"}

\* lines 491-496: the request before the options are applied, with its Header,
\* the cookies of its Cookie header, URL.RawQuery and the body fields
NewRequest == [Header |-> {}, Cookie |-> <<>>, RawQuery |-> <<>>, body |-> NoRequest]

\* what reqOptions(request, t) may return: the request with the option applied,
\* one per order range may visit a map in, or an error
reqOptions(request, t) ==
    CASE t.kind = "Auth" ->
            {[err |-> NoErr,
              request |-> [request EXCEPT !.Header =
                               HeaderSet(@, "Authorization", BasicAuth(t.user, t.pass))]]}
      [] t.kind = "Cookies" ->
            {[err |-> NoErr, request |-> [request EXCEPT !.Cookie = @ \o t.cookies]]}
      [] t.kind = "Headers" ->
            {[err |-> NoErr, request |-> [request EXCEPT !.Header = HeaderSetAll(@, order)]] :
                order \in Orders(t.pairs)}
      [] t.kind = "Params" ->
            {[err |-> NoErr, request |-> [request EXCEPT !.RawQuery = Encode(t.pairs)]]}
      [] t.kind \in BodyKinds /\ OptionError(t) # NoErr ->
            {[err |-> OptionError(t), request |-> [nil |-> TRUE]]}
      [] t.kind \in BodyKinds /\ OptionError(t) = NoErr ->
            {[err |-> NoErr,
              request |-> [request EXCEPT !.Header = HeaderSet(@, "Content-Type", ContentTypeOf(t)),
                                          !.body = RequestOf(t, buf)]] :
                buf \in Materialized(t)}
      [] OTHER -> {[err |-> NoErr, request |-> request]}

\* lines 498-503: the options applied one after the other, up to the first
\* error
RECURSIVE ApplyOptions(_, _)
ApplyOptions(request, opts) ==
    IF opts = <<>> THEN {[err |-> NoErr, request |-> request]}
    ELSE UNION {IF o.err # NoErr THEN {o} ELSE ApplyOptions(o.request, Tail(opts)) :
                    o \in reqOptions(request, Head(opts))}

\* a GetBody that hands out the one reader the request already has
GetBodySharesReader(snapshot, current) == current

\* lines 252-255, 267-270, 286-289: GetBody returns a new reader, a copy of the
\* snapshot; current is the reader request.Body holds at that time
GetBodyReader(snapshot, current) == snapshot

\* lines 555-561: reqForSend, the clone with a body of its own
Clone(request) ==
    IF request.GetBody # "nil"
        THEN [request EXCEPT !.Body = GetBodyReader(request.snapshot, request.Body)]
        ELSE request

\* how much of the request body client.Do reads before it returns
ReadAmounts(n) == {0, n \div 2, n}

\* a pointer: nil, or to a value
NilPtr == [nil |-> TRUE]
Ptr(v) == [nil |-> FALSE, v |-> v]

\* lines 46-49: a *RequestOverride, nil or with its two pointer fields
NilOverride == [nil |-> TRUE]
RequestOverride(t, r) == [nil |-> FALSE, Timeout |-> t, AutoRedirectDisabled |-> r]

\* the *RequestOverride values a call passes among its options, in the order
\* given: none, the overrides of TestOverride, one that sets both fields to
\* their zero values, one that sets neither, two of them, and a nil pointer
\* after one
OverrideTimeout == 3
OverrideLists ==
    LET t == RequestOverride(Ptr(OverrideTimeout), NilPtr)
        r == RequestOverride(NilPtr, Ptr(TRUE))
        z == RequestOverride(Ptr(0), Ptr(FALSE))
        e == RequestOverride(NilPtr, NilPtr)
    IN  {<<>>, <<t>>, <<r>>, <<z>>, <<e>>, <<t, r>>, <<r, z>>, <<t, NilOverride>>}

\* the body option of the calls that carry overrides
OverBody == [kind |-> "FormKV", pairs |-> OnePair, file |-> "none", marshals |-> TRUE]

\* the URL, the body option and the overrides of a RequestWithMethod call:
\* interleaved and in the retry runs a plain request; one call at a time, also
\* a URL that does not parse and, for each way a body option fails, an option
\* that fails so; in the body runs these and every body option; in the
\* override runs every list of overrides, with and without a body option
Inputs ==
    LET plain == {[url |-> "ok", opt |-> NoBody, over |-> <<>>]}
        bad   == {[url |-> "bad", opt |-> NoBody, over |-> <<>>]} \cup
                 {[url |-> "ok", opt |-> o, over |-> <<>>] :
                     o \in {b \in BodyOptions : OptionError(b) # NoErr /\ b.pairs = OnePair}}
    IN  CASE mode = "seq" -> plain \cup bad
          [] mode = "body" -> plain \cup bad \cup
                              {[url |-> "ok", opt |-> o, over |-> <<>>] : o \in BodyOptions}
          [] mode = "over" -> {[url |-> "ok", opt |-> o, over |-> ov] :
                                  o \in {NoBody, OverBody}, ov \in OverrideLists}
          [] OTHER -> plain

(***************************************************************************)
(* response.go: MiniResponse and its accessors                             *)
(***************************************************************************)
\* no response is being read
NoMini == [nil |-> TRUE]

\* the bodies the server sends: nothing, a number, an integer a float64 cannot
\* hold, an object, two values, and text that is no JSON
BigInt == "9007199254740993"
ResponseBodies ==
    {<<>>, <<"1">>, <<BigInt>>, <<"{", "}">>, <<"1", " ", "2">>, <<"x">>}

NilBodyErr == "response or response body is nil"
ClosedReadErr == "http: read on closed response body"
NetReadErr == "unexpected EOF"
DecodeErr == "invalid character"

\* a []byte: nil, or the bytes (a non-nil slice may be empty)
NilBytes == [nil |-> TRUE, data |-> <<>>]
Bytes(data) == [nil |-> FALSE, data |-> data]

\* the network body of a response: the bytes the server sends, how many of
\* them were read, whether it is closed, how often Close was called on it, and
\* whether reading it fails half way
NetBody(data, closed, fails) ==
    [data |-> data, read |-> 0, closed |-> closed, closes |-> 0, fails |-> fails]

\* the *MiniResponse values RequestWithMethod returns: a response with a body
\* (already closed by doWithRetry when the last attempt was to be retried), or,
\* with a negative MaxRetries, no response at all
MiniResponses ==
    {[nil |-> FALSE, Response |-> "set", Body |-> "set", net |-> NetBody(d, c, f),
      bodyCache |-> NilBytes, netReads |-> 0, calls |-> <<>>] :
        d \in ResponseBodies, c \in BOOLEAN, f \in BOOLEAN}
    \cup
    {[nil |-> FALSE, Response |-> "nil", Body |-> "nil", net |-> NetBody(<<>>, FALSE, FALSE),
      bodyCache |-> NilBytes, netReads |-> 0, calls |-> <<>>]}

\* io.ReadAll(body), io.Copy(io.Discard, body): read to the end, or to the
\* error; out is what was read
ReadAll(net) ==
    IF net.closed THEN [net |-> net, out |-> <<>>, err |-> ClosedReadErr]
    ELSE IF net.fails
        THEN LET upto == IF net.read > Len(net.data) \div 2 THEN net.read
                                                            ELSE Len(net.data) \div 2
             IN  [net |-> [net EXCEPT !.read = upto],
                  out |-> SubSeq(net.data, net.read + 1, upto), err |-> NetReadErr]
    ELSE [net |-> [net EXCEPT !.read = Len(net.data)],
          out |-> SubSeq(net.data, net.read + 1, Len(net.data)), err |-> NoErr]

\* body.Close()
CloseNet(net) == [net EXCEPT !.closed = TRUE, !.closes = @ + 1]

\* a RawData that never takes the cache
RawDataReadsAgain(cache) == FALSE

\* line 38: res.bodyCache != nil
RawDataCached(cache) == ~cache.nil

\* a ReadStream that never takes the cache
ReadStreamIgnoresCache(cache) == FALSE

\* line 93: res.bodyCache != nil
ReadStreamCached(cache) == ~cache.nil

\* a ReadStream that hands the body over and keeps it too
TransferKeepsBody(r) == r

\* lines 100-101: the body goes to the caller, res.Response.Body = nil
TransferBody(r) == [r EXCEPT !.Body = "nil"]

\* a Close that does not read what is left of the body
NotDrained(net) == net

\* line 32: io.Copy(io.Discard, res.Response.Body), its error ignored
Drained(net) == ReadAll(net).net

\* a check that never finds the body gone
BodyNeverGone(r) == FALSE

\* lines 42, 96, 19: res.Response == nil || res.Response.Body == nil
NoBodyLeft(r) == r.Response = "nil" \/ r.Body = "nil"

\* RawData, lines 37-58: the response afterwards, the bytes and the error returned
RawDataOf(r) ==
    IF RawDataCached(r.bodyCache)
        THEN [res |-> r, raw |-> r.bodyCache, err |-> NoErr]
    ELSE IF NoBodyLeft(r)
        THEN [res |-> r, raw |-> NilBytes, err |-> NilBodyErr]
    ELSE LET rd == ReadAll(r.net)
             r1 == [r EXCEPT !.net = CloseNet(rd.net), !.Body = "nil", !.netReads = @ + 1]
         IN  IF rd.err # NoErr
                THEN [res |-> r1, raw |-> NilBytes, err |-> rd.err]
                ELSE [res |-> [r1 EXCEPT !.bodyCache = Bytes(rd.out)],
                      raw |-> Bytes(rd.out), err |-> NoErr]

\* the JSON value a text starts with (nil when it starts with none), and
\* whether anything but white space follows it
Digits == {"1", "2", BigInt}
FirstValue(data) ==
    IF data # <<>> /\ data[1] \in Digits THEN [nil |-> FALSE, kind |-> "number", text |-> data[1], len |-> 1]
    ELSE IF Len(data) >= 2 /\ data[1] = "{" /\ data[2] = "}"
        THEN [nil |-> FALSE, kind |-> "object", text |-> "{}", len |-> 2]
    ELSE [nil |-> TRUE, kind |-> "none", text |-> "", len |-> 0]
TrailingData(data) ==
    \E i \in (FirstValue(data).len + 1)..Len(data) : data[i] # " "

\* a number as float64: 2^53 + 1 is rounded to 2^53
Float64Of(text) == IF text = BigInt THEN "9007199254740992" ELSE text

\* no value
NoValue == [kind |-> "none", text |-> ""]

\* json.Unmarshal(rawData, &jsonData): the whole text is one value; numbers
\* become float64
Unmarshal(data) ==
    LET v == FirstValue(data)
    IN  IF v.nil \/ TrailingData(data) THEN [value |-> NoValue, err |-> DecodeErr]
        ELSE [value |-> [kind |-> IF v.kind = "number" THEN "float64" ELSE v.kind,
                         text |-> IF v.kind = "number" THEN Float64Of(v.text) ELSE v.text],
              err |-> NoErr]

\* dec.UseNumber(); dec.Decode(&jsonData): the first value of the text; numbers
\* become json.Number
DecodeNumber(data) ==
    LET v == FirstValue(data)
    IN  IF v.nil THEN [value |-> NoValue, err |-> DecodeErr]
        ELSE [value |-> [kind |-> IF v.kind = "number" THEN "json.Number" ELSE v.kind,
                         text |-> v.text],
              err |-> NoErr]

\* no stream, the stream ReadStream makes of the cache, and the network body
\* handed to the caller
NoStream == [src |-> "none", buf |-> <<>>]
CacheStream(cache) == [src |-> "cache", buf |-> cache.data]
NetStream == [src |-> "net", buf |-> <<>>]

\* an accessor call in the history: what it returned, and the response as it
\* was when the call started
Called(r, op, raw, value, stream, err) ==
    [op |-> op, raw |-> raw, value |-> value, stream |-> stream, err |-> err,
     before |-> [Response |-> r.Response, Body |-> r.Body, net |-> r.net,
                 bodyCache |-> r.bodyCache, netReads |-> r.netReads]]

(***************************************************************************)
(* State after NewClient, before any call                                  *)
(***************************************************************************)
\* no request has been sent yet, so there is no http.Client
NoClient == [nil |-> TRUE]

(***************************************************************************)
(* The Server-Sent-Events reader: a stream of bytes, ReadEvent, Events     *)
(***************************************************************************)
MaxLines == 4

\* io.EOF, the error of a stream that has ended
EOF == "EOF"

\* the lines a stream is made of, without their newline, each with what it
\* says: a blank line, data with and without a space and with a carriage
\* return, an event name, an id, and a retry, which is no reason to emit
SSELines ==
    {[text |-> <<>>, field |-> "", value |-> <<>>, number |-> 0],
     [text |-> <<"d", "a", "t", "a", ":", " ", "x">>, field |-> "data", value |-> <<"x">>,
      number |-> 0],
     [text |-> <<"d", "a", "t", "a", ":", "y", "\r">>, field |-> "data", value |-> <<"y">>,
      number |-> 0],
     [text |-> <<"e", "v", "e", "n", "t", ":", " ", "e">>, field |-> "event",
      value |-> <<"e">>, number |-> 0],
     [text |-> <<"i", "d", ":", " ", "1">>, field |-> "id", value |-> <<"1">>, number |-> 0],
     [text |-> <<"r", "e", "t", "r", "y", ":", " ", "5">>, field |-> "retry",
      value |-> <<"5">>, number |-> 5]}

\* the bytes of a stream of lines: every line followed by a newline, the last
\* one too unless the stream stops inside it
RECURSIVE StreamOf(_, _)
StreamOf(lines, partial) ==
    IF lines = <<>> THEN <<>>
    ELSE Head(lines).text
             \o (IF Len(lines) = 1 /\ partial THEN <<>> ELSE <<"\n">>)
             \o StreamOf(Tail(lines), partial)

\* SSEEvent, and the zero value &SSEEvent{}
SSEEvent(event, data, id, retry) == [Event |-> event, Data |-> data, ID |-> id, Retry |-> retry]
NewSSEEvent == SSEEvent(<<>>, <<>>, <<>>, 0)

\* NewSSEReader(r) over a stream that ends with ending, before Events is
\* called: nothing read, no channel, nothing received
NewSSEReader(lines, partial, ending) ==
    [lines |-> lines, partial |-> partial, stream |-> StreamOf(lines, partial),
     ending |-> ending, off |-> 0, pc |-> "new", pending |-> NewSSEEvent,
     received |-> <<>>, reads |-> <<>>, calls |-> 0, err |-> NoErr, closed |-> FALSE,
     stopped |-> FALSE]

\* no reader yet
NoSSE == [pc |-> "none"]

\* the readers of a run: every stream of up to MaxLines lines that ends, after
\* its last newline or inside its last line when that line has bytes, at its
\* end or with an error
SSERuns ==
    LET streams == UNION {[1..n -> SSELines] : n \in 0..MaxLines}
    IN  {NewSSEReader(lines, FALSE, ending) :
             lines \in streams, ending \in {EOF, NetReadErr}}
        \cup {NewSSEReader(lines, TRUE, ending) :
                  lines \in {l \in streams : l # <<>> /\ l[Len(l)].text # <<>>},
                  ending \in {EOF, NetReadErr}}

\* r.reader.ReadBytes('\n') at offset off: the bytes up to and including the
\* next newline, or the bytes left and the error the stream ends with
ReadBytes(stream, off, ending) ==
    LET newlines == {i \in (off + 1)..Len(stream) : stream[i] = "\n"}
    IN  IF newlines # {}
        THEN LET end == CHOOSE i \in newlines : \A j \in newlines : i <= j
             IN  [line |-> SubSeq(stream, off + 1, end), err |-> NoErr, off |-> end]
        ELSE [line |-> SubSeq(stream, off + 1, Len(stream)), err |-> ending,
              off |-> Len(stream)]

\* bytes.TrimRight(line, "\r\n")
TrimRight(line) ==
    LET kept == {i \in 1..Len(line) : line[i] \notin {"\r", "\n"}}
    IN  IF kept = {} THEN <<>>
        ELSE SubSeq(line, 1, CHOOSE i \in kept : \A j \in kept : j <= i)

\* bytes.IndexByte(line, c), counting from 0, -1 when c is not in line
IndexByte(line, c) ==
    LET at == {i \in 1..Len(line) : line[i] = c}
    IN  IF at = {} THEN -1 ELSE (CHOOSE i \in at : \A j \in at : i <= j) - 1

\* bytes.TrimPrefix(s, []byte{' '})
TrimPrefix(s) == IF s # <<>> /\ Head(s) = " " THEN Tail(s) ELSE s

\* fmt.Sscanf(value, "%d", &retry) for a value without sign or leading space:
\* the number its leading digits spell, 0 when it has none
DecimalDigits == <<"0", "1", "2", "3", "4", "5", "6", "7", "8", "9">>
DigitOf(c) == (CHOOSE d \in 1..Len(DecimalDigits) : DecimalDigits[d] = c) - 1
RECURSIVE Sscanf(_, _)
Sscanf(value, retry) ==
    IF value = <<>> \/ \A d \in 1..Len(DecimalDigits) : DecimalDigits[d] # Head(value) THEN retry
    ELSE Sscanf(Tail(value), Len(DecimalDigits) * retry + DigitOf(Head(value)))

\* lines 66-89: the field and the value of a line, and the event with the
\* field assigned; dataLines with the value appended for a data line
FieldOf(line) ==
    LET colonIdx == IndexByte(line, ":")
    IN  IF colonIdx = -1 THEN [field |-> line, value |-> <<>>]
        ELSE [field |-> SubSeq(line, 1, colonIdx),
              value |-> TrimPrefix(SubSeq(line, colonIdx + 2, Len(line)))]
WithField(event, f) ==
    CASE f.field = <<"e", "v", "e", "n", "t">> -> [event EXCEPT !.Event = f.value]
      [] f.field = <<"i", "d">> -> [event EXCEPT !.ID = f.value]
      [] f.field = <<"r", "e", "t", "r", "y">> -> [event EXCEPT !.Retry = Sscanf(f.value, 0)]
      [] OTHER -> event
WithData(dataLines, f) ==
    IF f.field = <<"d", "a", "t", "a">> THEN Append(dataLines, f.value) ELSE dataLines

\* a reader for which every event read so far has something to emit
EmitsAtEveryBlank(event, dataLines) == TRUE

\* line 54: the event read so far has something to emit
HasContent(event, dataLines) ==
    Len(dataLines) > 0 \/ event.Event # <<>> \/ event.ID # <<>>

\* ReadEvent from offset off with event and dataLines read so far: the event or
\* the error it returns and the offset the reader is left at. One turn of the
\* loop for the line read, then the turns after it; the values of a turn are
\* bound once each.
RECURSIVE ReadEventFrom(_, _, _, _, _)
ReadEventLine(stream, ending, read, line, event, dataLines) ==
    IF read.err = EOF /\ Len(read.line) = 0
        THEN [nil |-> TRUE, err |-> EOF, off |-> read.off]
    ELSE IF read.err # NoErr /\ read.err # EOF
        THEN [nil |-> TRUE, err |-> read.err, off |-> read.off]
    ELSE IF Len(line) = 0
        THEN IF HasContent(event, dataLines)
             THEN [nil |-> FALSE, err |-> NoErr, off |-> read.off,
                   event |-> [event EXCEPT !.Data = Join(dataLines, "\n")]]
             ELSE ReadEventFrom(stream, ending, read.off, event, dataLines)
    ELSE IF line[1] = ":"
        THEN ReadEventFrom(stream, ending, read.off, event, dataLines)
    ELSE CHOOSE out \in {ReadEventFrom(stream, ending, read.off, WithField(event, f),
                                       WithData(dataLines, f)) : f \in {FieldOf(line)}} : TRUE
ReadEventFrom(stream, ending, off, event, dataLines) ==
    CHOOSE out \in UNION {{ReadEventLine(stream, ending, read, line, e, d) :
                              line \in {TrimRight(read.line)}, e \in {event},
                              d \in {dataLines}} :
                          read \in {ReadBytes(stream, off, ending)}} : TRUE

\* r.ReadEvent()
ReadEvent(r) ==
    CHOOSE out \in {ReadEventFrom(stream, r.ending, r.off, NewSSEEvent, <<>>) :
                       stream \in {r.stream}} : TRUE

\* no function has been applied
NoFn == [op |-> "none"]

\* the responses and errors a predicate is asked about: no response, and the
\* statuses at and next to the ends of 500..599 and of the listed codes
PolicyStatuses == {100, 200, 404, 408, 429, 499, 500, 502, 599, 600}
PolicyResponses == {NilResp} \cup {Response(code, <<>>) : code \in PolicyStatuses}
PolicyErrors == {NoErr, TransportErr}
StatusCodeLists == {{}, {404}, TestStatusCodes}

\* the errors an error check is asked about, the checks callers pass (none, a
\* read error only, every error) and the policies they combine
CheckedErrors == {NoErr, TransportErr, NetReadErr}
Checks == {{}, {NetReadErr}, {TransportErr, NetReadErr}}
Policies ==
    {[kind |-> "range", min |-> 500, max |-> 599],
     [kind |-> "codes", statusCodes |-> {404}],
     [kind |-> "check", check |-> {}],
     [kind |-> "check", check |-> {NetReadErr}]}
PolicyLists == UNION {[1..n -> Policies] : n \in 0..MaxPolicies}

\* the windows a base is computed for, as int64 values: none, one nanosecond,
\* three, a second, a minute and the longest duration; and the request rates
MaxDuration == 0..(Int64Width - 2)
Windows == {{}, Int64Of(1), Int64Of(3), Int64Of(Second), Minute, MaxDuration}
RPMs == {-1, 0, 1, 7, 60, 1000, 1073741824}

\* the durations RetryExponentialDelay is built with, in nanoseconds
BaseDelays == {0, 1, DefaultBaseDelayMs * Millisecond, FixedDelayMs * Millisecond}

\* the options callers pass: the Auth of TestAuth and another, Cookies with a
\* name in common, Headers with keys that differ in case only, across two maps
\* and within one, Params, and body options of every kind, one of them failing
Options ==
    {[kind |-> "Auth", user |-> "postman", pass |-> "password"],
     [kind |-> "Auth", user |-> "alice", pass |-> "secret"],
     [kind |-> "Cookies", cookies |-> <<[Name |-> "a", Value |-> "1"]>>],
     [kind |-> "Cookies", cookies |-> <<[Name |-> "a", Value |-> "2"],
                                        [Name |-> "b", Value |-> "3"]>>],
     [kind |-> "Headers", pairs |-> <<[k |-> "x-a", v |-> "1"]>>],
     [kind |-> "Headers", pairs |-> <<[k |-> "X-A", v |-> "2"],
                                      [k |-> "content-type", v |-> "text/plain"]>>],
     [kind |-> "Headers", pairs |-> <<[k |-> "x-a", v |-> "3"], [k |-> "X-A", v |-> "4"]>>],
     [kind |-> "Params", pairs |-> OnePair],
     [kind |-> "Params", pairs |-> TwoPairs],
     [kind |-> "FormKV", pairs |-> OnePair, file |-> "none", marshals |-> TRUE],
     [kind |-> "JSONData", pairs |-> TwoPairs, file |-> "none", marshals |-> TRUE],
     [kind |-> "JSONData", pairs |-> OnePair, file |-> "none", marshals |-> FALSE],
     [kind |-> "FormData", pairs |-> TwoPairs, file |-> "none", marshals |-> TRUE]}

\* the option lists of a call, in the order given
OptionLists == UNION {[1..n -> Options] : n \in 0..MaxOptions}

\* the applications of the functions of retry.go and of the options loop, each
\* with its arguments; outside the function runs, none
FnCalls ==
    IF mode # "fn" THEN {NoFn}
    ELSE {[op |-> "defaultRetryPolicy", resp |-> resp, err |-> err] :
             resp \in PolicyResponses, err \in PolicyErrors}
         \cup {[op |-> "RetryPolicyWithStatusCodes", statusCodes |-> codes, resp |-> resp,
                err |-> err] :
                   codes \in StatusCodeLists, resp \in PolicyResponses, err \in PolicyErrors}
         \cup {[op |-> "RetryExponentialDelay", baseDelay |-> base, attempt |-> attempt] :
                   base \in BaseDelays, attempt \in (-1)..MaxAttempt}
         \cup {[op |-> "reqOptions", opts |-> opts] : opts \in OptionLists}
         \cup {[op |-> "RetryPolicyWithErrorCheck", check |-> check, resp |-> resp,
                err |-> err] :
                   check \in Checks, resp \in PolicyResponses, err \in CheckedErrors}
         \cup {[op |-> "RetryCombinePolicies", policies |-> policies, resp |-> resp,
                err |-> err] :
                   policies \in PolicyLists, resp \in PolicyResponses, err \in CheckedErrors}
         \cup {[op |-> "BackoffBaseForWindow", window |-> window, maxRetries |-> maxRetries] :
                   window \in Windows, maxRetries \in (-1)..MaxAttempt}
         \cup {[op |-> "RPMToMinInterval", rpm |-> rpm] : rpm \in RPMs}

\* the function has returned out
Returned(f) == "out" \in DOMAIN f
Return(f, out) == [k \in DOMAIN f \cup {"out"} |-> IF k = "out" THEN out ELSE f[k]]

\* no call of RequestWithMethod, so no input
NoInput == [url |-> "none", opt |-> NoBody, over |-> <<>>]

\* request: the request RequestWithMethod built; req: the request doWithRetry sends
InitLoc == [op |-> "none", f |-> "none", v |-> 0, cfgL |-> defaultCfg,
            ct |-> Nil, tr |-> Nil,
            attempt |-> 0, resp |-> NilResp, err |-> NoErr,
            request |-> NoRequest, req |-> NoRequest]

InitCall == [op |-> "none", genStart |-> 0, quiet |-> FALSE, after |-> FALSE,
             sawEmpty |-> FALSE, ret |-> Nil, input |-> NoInput]

\* no *MiniResponse
NilMini == [nil |-> TRUE]

\* resp, err: what doWithRetry returned; mini: the *MiniResponse of the call
InitResult == [set |-> FALSE, resp |-> NilResp, err |-> NoErr, mini |-> NilMini]

InitClient ==
    /\ cfg = defaultCfg
    /\ transport = Nil
    /\ handles = <<>>
    /\ pc = [p \in Procs |-> "idle"]
    /\ loc = [p \in Procs |-> InitLoc]
    /\ call = [p \in Procs |-> InitCall]
    /\ sent = [p \in Procs |-> <<>>]
    /\ events = [p \in Procs |-> <<>>]
    /\ result = [p \in Procs |-> InitResult]
    /\ gen = 0
    /\ nops = 0
    /\ hist = <<>>
    /\ published = {}
    /\ discarded = {}
    /\ returned = 0
    /\ written = [f \in Fields |-> {}]
    /\ steps = [p \in Procs |-> <<>>]
    /\ timeout = DefaultTimeout
    /\ autoRedirect = FALSE
    /\ client = [p \in Procs |-> NoClient]
    /\ fn \in FnCalls
    /\ sse = NoSSE

\* the client is new and no response is being read
InitCommon == InitClient /\ res = NoMini

\* goroutines call into one client concurrently
Init == mode = "conc" /\ Retry = ConcRetry /\ InitCommon

\* one goroutine, one call after the other
InitSeq == mode = "seq" /\ Retry = ConcRetry /\ InitCommon

\* one goroutine sending requests, for every RetryConfig
InitRetry == mode = "retry" /\ Retry \in RetryConfigs /\ InitCommon

\* one call, for every URL, body option and GetBody
InitBody == mode = "body" /\ Retry \in BodyRetryConfigs /\ InitCommon

\* one goroutine: requests with per-call overrides, SetTimeout and
\* DisableAutoRedirect
InitOver == mode = "over" /\ Retry = NilRetry /\ InitCommon

\* goroutines that call SetSocks5Proxy and SetHttpProxyURL at the same time
InitProxy == mode = "proxy" /\ Retry = NilRetry /\ InitCommon

\* one goroutine: the calls of TestAnySet, in any order
InitAny == mode = "any" /\ Retry = NilRetry /\ InitCommon

\* a caller holds a *MiniResponse and calls its accessors, one at a time
InitResp ==
    /\ mode = "resp"
    /\ Retry = NilRetry
    /\ InitClient
    /\ res \in MiniResponses

\* Interleaved, every goroutine makes one call and goroutine k makes the k-th call
\* to start (goroutines run the same code, so the numbering loses no behaviour);
\* otherwise goroutine 1 makes up to MaxSeqCalls calls, one after the other.
Callers == IF Interleaved THEN {nops + 1} ELSE {1}
CallBound ==
    CASE Interleaved -> NumProcs
      [] mode = "body" -> 1
      [] mode = "any" -> MaxAnyCalls
      [] OTHER -> MaxSeqCalls
\* goroutine p may start a call
CanCall(p) ==
    /\ pc[p] = "idle"
    /\ p \in Callers
    /\ nops < CallBound
    /\ ~Interleaved => \A q \in Procs : pc[q] = "idle"

InSetter(q) == pc[q] \in {"set_store", "set_clear"}
Quiescent == \A q \in Procs : pc[q] = "idle"

\* a completed call: its kind, the field and value of a setter, the handle a
\* getTransport call returned, and the number of handles constructed so far
Done(kind, f, v, ret) ==
    [kind |-> kind, f |-> f, v |-> v, ret |-> ret, count |-> Len(handles)]

\* the last two completed calls (recorded when calls do not overlap); all of
\* them in the runs of MaxAnyCalls calls
Remember(e) ==
    IF Interleaved THEN hist
    ELSE IF mode = "any" \/ Len(hist) < 2 THEN Append(hist, e) ELSE <<hist[2], e>>

(***************************************************************************)
(* doWithRetry: the parts of a loop iteration                              *)
(***************************************************************************)
\* a loop that retries once when client.Retry is nil
maxRetriesDefaultsToOne(r) == IF r.nil THEN 1 ELSE r.MaxRetries

\* doWithRetry lines 301-324: the values the loop runs with
maxRetriesOf(r) == IF r.nil THEN 0 ELSE r.MaxRetries

\* a loop that stops one attempt early
LoopStopsEarly(attempt, maxRetries) == attempt < maxRetries

\* line 326: the loop condition
LoopContinues(attempt, maxRetries) == attempt <= maxRetries

\* an attempt sent on whatever handle is cached when it is sent
AttemptOnCached(l, cached) == cached

\* lines 541-545, 352: every attempt goes through client, whose Transport is the
\* handle RequestWithMethod obtained; cached is what h.transport holds at that time
AttemptTransport(l, cached) == l.tr

\* an event that numbers the retries from 0
RetryEventFromZero(attempt, resp, err, delay) ==
    [Attempt |-> attempt - 1,
     Status  |-> IF resp.nil THEN 0 ELSE resp.StatusCode,
     Err     |-> err,
     Delay   |-> delay]

\* lines 330-339: the RetryEvent handed to onRetry
RetryEventOf(attempt, resp, err, delay) ==
    [Attempt |-> attempt,
     Status  |-> IF resp.nil THEN 0 ELSE resp.StatusCode,
     Err     |-> err,
     Delay   |-> delay]

\* lines 358-360: resp.Body.Close() when there is a response
CloseBody(resp) == IF resp.nil THEN resp ELSE [resp EXCEPT !.closed = TRUE]

\* what client.Do may return
Outcomes ==
    {<<Response(code, JSONBody), NoErr>> : code \in Statuses} \cup {<<NilResp, TransportErr>>}

\* a RequestWithMethod that wraps whatever doWithRetry returned
WrapsDespiteError(request, resp, err) ==
    [nil |-> FALSE, Response |-> resp, Request |-> request]

\* lines 563-569: no wrapper on an error, else one around the response and the
\* request RequestWithMethod built
MiniResponseOf(request, resp, err) ==
    IF err # NoErr THEN NilMini
    ELSE [nil |-> FALSE, Response |-> resp, Request |-> request]

\* line 362 and lines 562-569: doWithRetry returns (resp, err) and the call
\* ends; op is "req" for RequestWithMethod, which wraps the result
RequestReturns(p, op, request, resp, err, r0) ==
    /\ result' = [r0 EXCEPT ![p] =
                     [set |-> TRUE, resp |-> resp, err |-> err,
                      mini |-> IF op = "req" THEN MiniResponseOf(request, resp, err)
                                             ELSE NilMini]]
    /\ pc' = [pc EXCEPT ![p] = "idle"]

(***************************************************************************)
(* getTransport                                                            *)
(***************************************************************************)
\* a getTransport that never takes the cached handle
CacheNeverHit(t) == FALSE

\* line 110: the cached handle is returned when there is one
CacheHit(t) == t # Nil

\* line 152: h.transport.Swap(clientTransport) leaves clientTransport in the cache
SwapIn(cur, new) == new

\* lines 152-157: the handle getTransport returns after the Swap
SwapResult(loaded, new) == IF loaded # Nil THEN loaded ELSE new

\* getTransport returns t to its caller.  A direct caller is done.
\* RequestWithMethod (line 524) builds client around t and enters doWithRetry
\* (lines 301-326), whose loop body never runs when maxRetries < 0.
GotTransport(p, op, t, c, r0, rq) ==
    /\ call' = [call EXCEPT ![p] = [c EXCEPT !.ret = t]]
    /\ IF op = "get"
        THEN /\ pc' = [pc EXCEPT ![p] = "idle"]
             /\ loc' = [loc EXCEPT ![p] = InitLoc]
             /\ result' = r0
             /\ hist' = Remember(Done("get", "none", 0, t))
        ELSE IF LoopContinues(0, maxRetriesOf(Retry))
        THEN /\ pc' = [pc EXCEPT ![p] = "rq_send"]
             /\ loc' = [loc EXCEPT ![p] = [InitLoc EXCEPT !.op = "req", !.tr = t,
                                                       !.request = rq, !.req = Clone(rq)]]
             /\ result' = r0
             /\ hist' = hist
        ELSE /\ RequestReturns(p, op, rq, NilResp, NoErr, r0)
             /\ loc' = [loc EXCEPT ![p] = InitLoc]
             /\ hist' = Remember(Done("req", "none", 0, t))

\* a call of getTransport starts: line 110, h.transport.Load()
BeginGetTransport(p, op, r0, in, rq) ==
    /\ CanCall(p)
    /\ ~CacheHit(transport) =>
          Len(handles) + Cardinality({q \in Procs : pc[q] = "gt_build"}) < MaxHandles
    /\ nops' = nops + 1
    /\ LET c == [op |-> op, genStart |-> gen, quiet |-> \A q \in Procs : ~InSetter(q),
                 after |-> returned > 0, sawEmpty |-> transport = Nil, ret |-> Nil,
                 input |-> in]
       IN  IF CacheHit(transport)
            THEN GotTransport(p, op, transport, c, r0, rq)
            ELSE /\ pc' = [pc EXCEPT ![p] = "gt_build"]
                 /\ loc' = [loc EXCEPT ![p] = [InitLoc EXCEPT !.op = op, !.request = rq]]
                 /\ call' = [call EXCEPT ![p] = c]
                 /\ result' = r0
                 /\ hist' = hist
    /\ UNCHANGED <<others, cfg, transport, handles, Retry, gen, published, discarded,
                   returned, written>>

\* a goroutine calls getTransport directly
GetTransport(p) ==
    /\ BeginGetTransport(p, "get", result, NoInput, NoRequest)
    /\ UNCHANGED <<sent, events, steps, client>>

\* lines 474-483: override is the last *RequestOverride among opts
LastOverride(over) == IF over = <<>> THEN NilOverride ELSE over[Len(over)]

\* lines 509-518: the timeout of the call, in seconds
ResolveTimeout(stored, override) ==
    IF ~override.nil /\ ~override.Timeout.nil THEN override.Timeout.v
    ELSE IF stored # 0 THEN stored
    ELSE DefaultTimeout

\* lines 513-521: whether the call is made with redirects disabled
ResolveAutoRedirect(stored, override) ==
    IF ~override.nil /\ ~override.AutoRedirectDisabled.nil
        THEN override.AutoRedirectDisabled.v
        ELSE stored

\* lines 541-552: the http.Client of a call; CheckRedirect is set (to the
\* function that returns http.ErrUseLastResponse) or nil.  Its Transport is
\* the handle getTransport returns.
HttpClientOf(over) ==
    [Timeout       |-> ResolveTimeout(timeout, LastOverride(over)),
     CheckRedirect |-> ResolveAutoRedirect(autoRedirect, LastOverride(over))]

\* the http.Client of goroutine p's request is c (recorded when calls do not
\* overlap)
Built(p, c) == IF Interleaved THEN client ELSE [client EXCEPT ![p] = c]

\* an input that RequestWithMethod takes to getTransport whatever it is
InputAccepted(in) == NoErr

\* lines 485-503: the error RequestWithMethod returns before getTransport
InputError(in) == IF in.url = "bad" THEN ParseErr ELSE OptionError(in.opt)

\* RequestWithMethod up to line 524 and the client of lines 541-552: the
\* overrides are taken out of the options, the URL is parsed and the options
\* applied; on an error the call returns it (lines 488, 501), else the request
\* is built, the timeout and the redirect policy are resolved and getTransport
\* is called
RequestWithMethod(p) ==
    /\ CanCall(p)
    /\ sent' = [sent EXCEPT ![p] = <<>>]
    /\ events' = [events EXCEPT ![p] = <<>>]
    /\ steps' = [steps EXCEPT ![p] = <<>>]
    /\ \E in \in Inputs :
          IF InputError(in) # NoErr
            THEN /\ nops' = nops + 1
                 /\ result' = [result EXCEPT ![p] =
                                  [InitResult EXCEPT !.set = TRUE, !.err = InputError(in)]]
                 /\ call' = [call EXCEPT ![p] = [InitCall EXCEPT !.op = "req", !.input = in]]
                 /\ hist' = Remember(Done("fail", "none", 0, Nil))
                 /\ client' = Built(p, NoClient)
                 /\ UNCHANGED <<others, cfg, transport, handles, Retry, pc, loc, gen,
                                published, discarded, returned, written>>
            ELSE /\ client' = Built(p, HttpClientOf(in.over))
                 /\ \E buf \in Materialized(in.opt) :
                      BeginGetTransport(p, "req", [result EXCEPT ![p] = InitResult],
                                        in, RequestOf(in.opt, buf))

\* lines 114-150: loadConfig and the construction of clientTransport
GetTransportBuild(p) ==
    /\ pc[p] = "gt_build"
    /\ handles' = Append(handles, NewHandle(cfg))
    /\ loc' = [loc EXCEPT ![p].ct = Len(handles) + 1]
    /\ pc' = [pc EXCEPT ![p] = "gt_swap"]
    /\ UNCHANGED <<others, client, steps, cfg, transport, Retry, call, sent, events, result, gen, nops,
                   hist, published, discarded, returned, written>>

\* lines 152-157: the Swap; when it finds a handle, clientTransport's idle
\* connections are closed and the handle found is returned
GetTransportSwap(p) ==
    /\ pc[p] = "gt_swap"
    /\ transport' = SwapIn(transport, loc[p].ct)
    /\ published' = published \cup {transport'}
    /\ discarded' = IF transport # Nil THEN discarded \cup {loc[p].ct} ELSE discarded
    /\ handles' = IF transport # Nil THEN CloseIdleConnections(handles, loc[p].ct)
                                     ELSE handles
    /\ GotTransport(p, loc[p].op, SwapResult(transport, loc[p].ct), call[p], result,
                    loc[p].request)
    /\ UNCHANGED <<others, client, steps, cfg, Retry, sent, events, gen, nops, returned, written>>

(***************************************************************************)
(* The transport-affecting setters (lines 375-469); all nine have the same *)
(* steps and differ in ApplySetter                                         *)
(***************************************************************************)
\* a clearTransport that reads the cache and leaves it as it is
clearTransportKeeps(t) == t

\* line 161: h.transport.Swap(nil) leaves nil in the cache
clearTransport(t) == Nil

\* the first line of every setter: cfg := h.loadConfig()
SetterLoadConfig(p) ==
    /\ CanCall(p)
    /\ \E a \in SetterCalls :
          loc' = [loc EXCEPT ![p] = [InitLoc EXCEPT !.op = "set", !.f = a[1], !.v = a[2],
                                                    !.cfgL = cfg]]
    /\ pc' = [pc EXCEPT ![p] = "set_store"]
    /\ gen' = gen + 1
    /\ nops' = nops + 1
    /\ UNCHANGED <<others, client, steps, cfg, transport, handles, Retry, call, sent, events, result,
                   hist, published, discarded, returned, written>>

\* the field assignments and h.storeConfig(cfg)
SetterStoreConfig(p) ==
    /\ pc[p] = "set_store"
    /\ cfg' = ApplySetter(loc[p].cfgL, loc[p].f, loc[p].v)
    /\ pc' = [pc EXCEPT ![p] = "set_clear"]
    /\ UNCHANGED <<others, client, steps, transport, handles, Retry, loc, call, sent, events, result,
                   gen, nops, hist, published, discarded, returned, written>>

\* if old := h.clearTransport(); old != nil { old.CloseIdleConnections() }, and
\* the setter returns
SetterClearTransport(p) ==
    /\ pc[p] = "set_clear"
    /\ transport' = clearTransport(transport)
    /\ handles' = IF transport # Nil THEN CloseIdleConnections(handles, transport)
                                     ELSE handles
    /\ pc' = [pc EXCEPT ![p] = "idle"]
    /\ loc' = [loc EXCEPT ![p] = InitLoc]
    /\ returned' = returned + 1
    /\ written' = [g \in Fields |->
                      written[g] \cup {a[2] : a \in {b \in Assigned(loc[p].f, loc[p].v) : b[1] = g}}]
    /\ hist' = Remember(Done("set", loc[p].f, loc[p].v, Nil))
    /\ UNCHANGED <<others, client, steps, cfg, Retry, call, sent, events, result, gen, nops,
                   published, discarded>>

(***************************************************************************)
(* SetTimeout and DisableAutoRedirect (lines 365-373)                      *)
(***************************************************************************)
\* a setter that clears the cached handle as the transport setters do
ClearsTransport(t) == Nil

\* lines 366-368, 371-373: one Store and nothing else, so the cached handle
\* stays as it is
KeepsTransport(t) == t

\* SetTimeout(i) and DisableAutoRedirect(enabled) have one step each; the
\* entry of hist holds the handle in the cache when the call returned
StoreAndReturn(p, kind, v) ==
    /\ CanCall(p)
    /\ mode \in {"over", "any"}
    /\ transport' = KeepsTransport(transport)
    /\ nops' = nops + 1
    /\ hist' = Remember(Done(kind, "none", v, transport'))
    /\ UNCHANGED <<mode, res, fn, sse, client, cfg, handles, Retry, pc, loc, call, sent,
                   events, result, gen, published, discarded, returned, written, steps>>

\* lines 366-368: h.timeout.Store(i)
SetTimeout(p) ==
    \E i \in SetTimeoutArgs :
        /\ timeout' = i
        /\ autoRedirect' = autoRedirect
        /\ StoreAndReturn(p, "SetTimeout", i)

\* lines 371-373: h.autoRedirect.Store(enabled)
DisableAutoRedirect(p) ==
    \E enabled \in BOOLEAN :
        /\ autoRedirect' = enabled
        /\ timeout' = timeout
        /\ StoreAndReturn(p, "DisableAutoRedirect", enabled)

(***************************************************************************)
(* doWithRetry                                                             *)
(***************************************************************************)
\* an entry of steps: what doWithRetry did, for which attempt, with which delay
StepOf(op, attempt, delay) == [op |-> op, attempt |-> attempt, delay |-> delay]

\* a loop that sleeps before it tells the observer
SleepsBeforeObserver(attempt, delay) ==
    <<StepOf("retryDelay", attempt, delay), StepOf("Sleep", attempt, delay),
      StepOf("onRetry", attempt, delay)>>

\* lines 327-342: what an iteration with attempt > 0 does before the body is
\* re-acquired: retryDelay(attempt), onRetry(event), time.Sleep(delay)
RetrySteps(attempt, delay) ==
    <<StepOf("retryDelay", attempt, delay), StepOf("onRetry", attempt, delay),
      StepOf("Sleep", attempt, delay)>>

\* the requests an in-package caller hands doWithRetry, under the name the
\* call has in the history: "dwr", a request whose GetBody returns an error at
\* one of its calls; "dwr_stream", a request with a body and no GetBody
OwnRequests ==
    LET o == [kind |-> "JSONData", pairs |-> OnePair, file |-> "none", marshals |-> TRUE]
    IN  {<<"dwr", [RequestOf(o, Marshal(OnePair)) EXCEPT !.failAt = failAt]>> :
            failAt \in 1..(MaxBodyRetries + 1)}
        \cup {<<"dwr_stream", StreamRequest(Marshal(OnePair))>>}

\* an in-package caller hands doWithRetry a request of its own
DoWithRetry(p) ==
    /\ mode = "body"
    /\ CanCall(p)
    /\ nops' = nops + 1
    /\ sent' = [sent EXCEPT ![p] = <<>>]
    /\ events' = [events EXCEPT ![p] = <<>>]
    /\ steps' = [steps EXCEPT ![p] = <<>>]
    /\ \E own \in OwnRequests :
          LET op == own[1]
              rq == own[2]
          IN  /\ call' = [call EXCEPT ![p] = [InitCall EXCEPT !.op = op]]
              /\ IF LoopContinues(0, maxRetriesOf(Retry))
                   THEN /\ pc' = [pc EXCEPT ![p] = "rq_send"]
                        /\ loc' = [loc EXCEPT ![p] = [InitLoc EXCEPT !.op = op, !.request = rq,
                                                                  !.req = rq]]
                        /\ result' = [result EXCEPT ![p] = InitResult]
                        /\ hist' = hist
                   ELSE /\ RequestReturns(p, op, rq, NilResp, NoErr, result)
                        /\ loc' = [loc EXCEPT ![p] = InitLoc]
                        /\ hist' = Remember(Done(op, "none", 0, Nil))
    /\ UNCHANGED <<others, client, cfg, transport, handles, Retry, gen, published, discarded,
                   returned, written>>

\* an attempt that sent a body: the reader the attempt started with, the
\* declared length and how much of the reader client.Do consumed
SentBody(at, body, length, n) ==
    [attempt |-> at.attempt, handle |-> at.handle, resp |-> at.resp, err |-> at.err,
     retry |-> at.retry, body |-> body, ContentLength |-> length, read |-> n]

\* the step log of goroutine p becomes s (recorded when calls do not overlap)
Logged(p, s) == IF Interleaved THEN steps ELSE [steps EXCEPT ![p] = s]

\* One attempt, lines 344-361: GetBody when the request has one (an error ends
\* the call, line 347), client.Do, the predicate, the body close and the loop
\* step; then either the return (line 362) or the start of the next iteration,
\* lines 327-342: the delay, the observer and the sleep.
DoWithRetrySend(p) ==
    /\ pc[p] = "rq_send"
    /\ LET l       == loc[p]
           rewinds == l.req.GetBody # "nil"
           body    == IF rewinds THEN GetBodyReader(l.req.snapshot, l.req.Body)
                      ELSE IF HasBody(l.req) THEN l.req.Body
                      ELSE NilReader
           s1      == IF rewinds THEN Append(steps[p], StepOf("GetBody", l.attempt, 0))
                                 ELSE steps[p]
           next    == l.attempt + 1
       IN  IF rewinds /\ l.req.failAt = next
            THEN /\ RequestReturns(p, l.op, l.request, NilResp, RewindErr, result)
                 /\ steps' = Logged(p, s1)
                 /\ loc' = [loc EXCEPT ![p] = InitLoc]
                 /\ hist' = Remember(Done(l.op, "none", 0, l.tr))
                 /\ UNCHANGED <<sent, events>>
            ELSE \E o \in Outcomes, n \in ReadAmounts(ReaderLen(body)) :
                  LET resp  == o[1]
                      err   == o[2]
                      retry == retryPolicyOf(Retry, resp, err)
                      s2    == Append(s1, StepOf("Do", l.attempt, 0))
                      at    == [attempt |-> l.attempt,
                                handle  |-> AttemptTransport(l, transport),
                                resp |-> resp, err |-> err, retry |-> retry]
                  IN  /\ sent' = [sent EXCEPT ![p] = Append(@,
                                     IF HasBody(l.req)
                                        THEN SentBody(at, body, l.req.ContentLength, n)
                                        ELSE at)]
                      /\ IF retry /\ LoopContinues(next, maxRetriesOf(Retry))
                          THEN /\ \E delay \in RetryDelayValues(retryDelayOf(Retry), next) :
                                    /\ events' = [events EXCEPT ![p] = Append(@,
                                                    RetryEventOf(next, CloseBody(resp), err, delay))]
                                    /\ steps' = Logged(p, s2 \o RetrySteps(next, delay))
                               /\ loc' = [loc EXCEPT ![p].resp = CloseBody(resp), ![p].err = err,
                                                     ![p].attempt = next,
                                                     ![p].req = IF HasBody(@)
                                                         THEN [@ EXCEPT !.Body = Read(body, n)]
                                                         ELSE @]
                               /\ UNCHANGED <<pc, result, hist>>
                          ELSE /\ RequestReturns(p, l.op, l.request,
                                                 IF retry THEN CloseBody(resp) ELSE resp, err, result)
                               /\ steps' = Logged(p, s2)
                               /\ loc' = [loc EXCEPT ![p] = InitLoc]
                               /\ events' = events
                               /\ hist' = Remember(Done(l.op, "none", 0, l.tr))
    /\ UNCHANGED <<others, client, cfg, transport, handles, Retry, call, gen, nops,
                   published, discarded, returned, written>>

(***************************************************************************)
(* The accessors of MiniResponse, called one at a time                     *)
(***************************************************************************)
\* everything of the client, which the accessors do not touch
clientVars == <<mode, cfg, transport, handles, Retry, pc, loc, call, sent, events,
                result, gen, nops, hist, published, discarded, returned, written, steps,
                timeout, autoRedirect, client, fn, sse>>

\* the caller may make another accessor call
CanAccess == mode = "resp" /\ Len(res.calls) < MaxAccessorCalls

\* RawData, lines 37-58
RawData ==
    /\ CanAccess
    /\ LET o == RawDataOf(res)
       IN  res' = [o.res EXCEPT !.calls = Append(@,
                        Called(res, "RawData", o.raw, NoValue, NoStream, o.err))]
    /\ UNCHANGED clientVars

\* RawJSON, lines 61-72
RawJSON ==
    /\ CanAccess
    /\ LET o == RawDataOf(res)
           d == IF o.err # NoErr THEN [value |-> NoValue, err |-> o.err]
                                 ELSE Unmarshal(o.raw.data)
       IN  res' = [o.res EXCEPT !.calls = Append(@,
                        Called(res, "RawJSON", o.raw, d.value, NoStream, d.err))]
    /\ UNCHANGED clientVars

\* RawNumJSON, lines 75-90
RawNumJSON ==
    /\ CanAccess
    /\ LET o == RawDataOf(res)
           d == IF o.err # NoErr THEN [value |-> NoValue, err |-> o.err]
                                 ELSE DecodeNumber(o.raw.data)
       IN  res' = [o.res EXCEPT !.calls = Append(@,
                        Called(res, "RawNumJSON", o.raw, d.value, NoStream, d.err))]
    /\ UNCHANGED clientVars

\* ReadStream, lines 92-103
ReadStream ==
    /\ CanAccess
    /\ IF ReadStreamCached(res.bodyCache)
        THEN res' = [res EXCEPT !.calls = Append(@,
                        Called(res, "ReadStream", NilBytes, NoValue,
                               CacheStream(res.bodyCache), NoErr))]
        ELSE IF NoBodyLeft(res)
        THEN res' = [res EXCEPT !.calls = Append(@,
                        Called(res, "ReadStream", NilBytes, NoValue, NoStream, NilBodyErr))]
        ELSE res' = [TransferBody(res) EXCEPT !.calls = Append(@,
                        Called(res, "ReadStream", NilBytes, NoValue, NetStream, NoErr))]
    /\ UNCHANGED clientVars

\* Close, lines 18-34
Close ==
    /\ CanAccess
    /\ IF NoBodyLeft(res)
        THEN res' = [res EXCEPT !.calls = Append(@,
                        Called(res, "Close", NilBytes, NoValue, NoStream, NoErr))]
        ELSE LET net == IF ~res.bodyCache.nil THEN res.net ELSE Drained(res.net)
             IN  res' = [res EXCEPT !.net = CloseNet(net), !.Body = "nil",
                                    !.calls = Append(@,
                            Called(res, "Close", NilBytes, NoValue, NoStream, NoErr))]
    /\ UNCHANGED clientVars

\* the caller reads the stream the last ReadStream returned to its end: the
\* network body when it was handed over, else the reader over the cache
StreamRead ==
    /\ CanAccess
    /\ res.calls # <<>>
    /\ LET last == res.calls[Len(res.calls)]
       IN  /\ last.op = "ReadStream"
           /\ last.stream.src # "none"
           /\ IF last.stream.src = "net"
                THEN LET rd == ReadAll(res.net)
                     IN  res' = [res EXCEPT !.net = rd.net,
                                            !.calls = Append(@,
                                    Called(res, "StreamRead", Bytes(rd.out), NoValue,
                                           NoStream, rd.err))]
                ELSE res' = [res EXCEPT !.calls = Append(@,
                                Called(res, "StreamRead", Bytes(last.stream.buf), NoValue,
                                       NoStream, NoErr))]
    /\ UNCHANGED clientVars

(***************************************************************************)
(* Specifications                                                          *)
(***************************************************************************)
Step(p) ==
    \/ GetTransport(p)
    \/ RequestWithMethod(p)
    \/ GetTransportBuild(p)
    \/ GetTransportSwap(p)
    \/ SetterLoadConfig(p)
    \/ SetterStoreConfig(p)
    \/ SetterClearTransport(p)
    \/ DoWithRetrySend(p)

Next == \E p \in Procs : Step(p)

\* one goroutine sending requests
NextRetry ==
    \E p \in Procs :
        \/ RequestWithMethod(p)
        \/ GetTransportBuild(p)
        \/ GetTransportSwap(p)
        \/ DoWithRetrySend(p)

Spec == Init /\ [][Next]_vars
SpecSeq == InitSeq /\ [][Next]_vars
SpecRetry == InitRetry /\ [][NextRetry]_vars

\* one call with a request body, through RequestWithMethod or to doWithRetry
NextBody ==
    \E p \in Procs :
        \/ RequestWithMethod(p)
        \/ GetTransportBuild(p)
        \/ GetTransportSwap(p)
        \/ DoWithRetry(p)
        \/ DoWithRetrySend(p)

SpecBody == InitBody /\ [][NextBody]_vars

\* the accessors of one response, in any order
NextResp ==
    \/ RawData
    \/ RawJSON
    \/ RawNumJSON
    \/ ReadStream
    \/ Close
    \/ StreamRead

SpecResp == InitResp /\ [][NextResp]_vars

\* one goroutine: requests with overrides, SetTimeout, DisableAutoRedirect
NextOver ==
    \E p \in Procs :
        \/ RequestWithMethod(p)
        \/ GetTransportBuild(p)
        \/ GetTransportSwap(p)
        \/ DoWithRetrySend(p)
        \/ SetTimeout(p)
        \/ DisableAutoRedirect(p)

SpecOver == InitOver /\ [][NextOver]_vars

\* one goroutine: requests, SetInsecure, SetTimeout, DisableAutoRedirect
NextAny ==
    \E p \in Procs :
        \/ RequestWithMethod(p)
        \/ GetTransportBuild(p)
        \/ GetTransportSwap(p)
        \/ DoWithRetrySend(p)
        \/ SetterLoadConfig(p)
        \/ SetterStoreConfig(p)
        \/ SetterClearTransport(p)
        \/ SetTimeout(p)
        \/ DisableAutoRedirect(p)

SpecAny == InitAny /\ [][NextAny]_vars

\* interleaved proxy setters
NextProxy ==
    \E p \in Procs :
        \/ SetterLoadConfig(p)
        \/ SetterStoreConfig(p)
        \/ SetterClearTransport(p)

SpecProxy == InitProxy /\ [][NextProxy]_vars

(***************************************************************************)
(* The functions of retry.go and reqOptions, applied to arguments          *)
(***************************************************************************)
InitFn == mode = "fn" /\ Retry = NilRetry /\ InitCommon

fnVars == <<mode, res, timeout, autoRedirect, client, cfg, transport, handles, gen, Retry, pc,
            loc, call, result, published, discarded, returned, written, nops, hist, sent,
            events, steps, sse>>

\* the function of the call is op, and it has not run yet
Calling(op) == mode = "fn" /\ fn.op = op /\ ~Returned(fn)

\* defaultRetryPolicy(resp, err)
ApplyDefaultRetryPolicy ==
    /\ Calling("defaultRetryPolicy")
    /\ fn' = Return(fn, defaultRetryPolicy(fn.resp, fn.err))
    /\ UNCHANGED fnVars

\* RetryPolicyWithStatusCodes(statusCodes...)(resp, err)
ApplyRetryPolicyWithStatusCodes ==
    /\ Calling("RetryPolicyWithStatusCodes")
    /\ fn' = Return(fn, RetryPolicyWithStatusCodes(fn.statusCodes, fn.resp, fn.err))
    /\ UNCHANGED fnVars

\* RetryExponentialDelay(baseDelay, 0)(attempt)
ApplyRetryExponentialDelay ==
    /\ Calling("RetryExponentialDelay")
    /\ fn' = Return(fn, RetryExponentialDelay(fn.baseDelay, fn.attempt))
    /\ UNCHANGED fnVars

\* RetryPolicyWithErrorCheck(check)(resp, err)
ApplyRetryPolicyWithErrorCheck ==
    /\ Calling("RetryPolicyWithErrorCheck")
    /\ fn' = Return(fn, RetryPolicyWithErrorCheck(fn.check, fn.resp, fn.err))
    /\ UNCHANGED fnVars

\* RetryCombinePolicies(policies...)(resp, err)
ApplyRetryCombinePolicies ==
    /\ Calling("RetryCombinePolicies")
    /\ fn' = Return(fn, RetryCombinePolicies(fn.policies, fn.resp, fn.err))
    /\ UNCHANGED fnVars

\* BackoffBaseForWindow(window, maxRetries)
ApplyBackoffBaseForWindow ==
    /\ Calling("BackoffBaseForWindow")
    /\ fn' = Return(fn, BackoffBaseForWindow(fn.window, fn.maxRetries))
    /\ UNCHANGED fnVars

\* RPMToMinInterval(rpm)
ApplyRPMToMinInterval ==
    /\ Calling("RPMToMinInterval")
    /\ fn' = Return(fn, RPMToMinInterval(fn.rpm))
    /\ UNCHANGED fnVars

\* lines 491-503: a new request and the options of the call applied to it
ApplyReqOptions ==
    /\ Calling("reqOptions")
    /\ \E out \in ApplyOptions(NewRequest, fn.opts) : fn' = Return(fn, out)
    /\ UNCHANGED fnVars

NextFn ==
    \/ ApplyReqOptions
    \/ ApplyDefaultRetryPolicy
    \/ ApplyRetryPolicyWithStatusCodes
    \/ ApplyRetryExponentialDelay
    \/ ApplyRetryPolicyWithErrorCheck
    \/ ApplyRetryCombinePolicies
    \/ ApplyBackoffBaseForWindow
    \/ ApplyRPMToMinInterval

SpecFn == InitFn /\ [][NextFn]_vars

(***************************************************************************)
(* An SSEReader, the goroutine of its Events and the consumer              *)
(***************************************************************************)
InitSSE == mode = "sse" /\ Retry = NilRetry /\ InitCommon

sseVars == <<mode, res, timeout, autoRedirect, client, cfg, transport, handles, gen, Retry,
             pc, loc, call, result, published, discarded, returned, written, nops, hist,
             sent, events, steps, fn>>

\* lines 26-31: NewSSEReader over one of the streams
OpenReader ==
    /\ mode = "sse"
    /\ sse.pc = "none"
    /\ sse' \in SSERuns
    /\ UNCHANGED sseVars

\* lines 102-115: Events makes the channel and starts the goroutine
Events ==
    /\ mode = "sse"
    /\ sse.pc = "new"
    /\ sse' = [sse EXCEPT !.pc = "read"]
    /\ UNCHANGED sseVars

\* lines 107-111: the goroutine calls ReadEvent; on an error it returns and
\* the deferred close(ch) runs, otherwise it goes to send the event
EventsRead ==
    /\ mode = "sse"
    /\ sse.pc = "read"
    /\ LET out == ReadEvent(sse)
       IN  sse' = IF out.err # NoErr
                  THEN [sse EXCEPT !.off = out.off, !.calls = @ + 1, !.err = out.err,
                                   !.pc = "done", !.closed = TRUE]
                  ELSE [sse EXCEPT !.off = out.off, !.calls = @ + 1, !.pc = "send",
                                   !.pending = out.event,
                                   !.reads = Append(@, [event |-> out.event,
                                                        from |-> sse.off, to |-> out.off])]
    /\ UNCHANGED sseVars

\* line 111 and the consumer's receive: ch has no buffer, so ch <- *event
\* completes when the consumer receives
Receive ==
    /\ mode = "sse"
    /\ sse.pc = "send"
    /\ ~sse.stopped
    /\ sse' = [sse EXCEPT !.received = Append(@, sse.pending), !.pc = "read"]
    /\ UNCHANGED sseVars

\* the consumer stops receiving while the goroutine waits to send
ConsumerStops ==
    /\ mode = "sse"
    /\ sse.pc = "send"
    /\ ~sse.stopped
    /\ sse' = [sse EXCEPT !.stopped = TRUE]
    /\ UNCHANGED sseVars

NextSSE == OpenReader \/ Events \/ EventsRead \/ Receive \/ ConsumerStops

SpecSSE == InitSSE /\ [][NextSSE]_vars

\* the reader is made, the goroutine runs when it can, and a consumer that has
\* not stopped receives what is sent
SpecSSEFair ==
    SpecSSE /\ WF_vars(OpenReader) /\ WF_vars(Events) /\ WF_vars(EventsRead) /\ WF_vars(Receive)

(***************************************************************************)
(* Properties of the transport cache under interleaving (Spec)             *)
(***************************************************************************)
\* a returned getTransport call that found the cache empty at its Load, with no
\* setter running when it started and none started since
FirstCaller(p) ==
    /\ call[p].ret # Nil
    /\ call[p].sawEmpty
    /\ call[p].quiet
    /\ call[p].genStart = gen

\* C1: getTransport calls that run concurrently on an empty cache, with the
\* configuration unchanged, all return the same handle.
C1_OneHandleForConcurrentCallers ==
    \A p, q \in Procs :
        FirstCaller(p) /\ FirstCaller(q) => call[p].ret = call[q].ret

\* three such calls have returned
C1_ThreeCallersReturned ==
    \A p \in Procs : FirstCaller(p)

\* C2: the handle of a getTransport call that found another handle published
\* is discarded: it never is the cached handle and no call returns it.
C2_LoserNeverCached ==
    /\ transport \notin discarded
    /\ \A p \in Procs : call[p].ret \notin discarded

\* C3: a getTransport call that started after a setter returned, with no setter
\* running during the call, returns a handle built from the stored configuration.
C3_HandleFromCurrentConfig ==
    \A p \in Procs :
        (/\ call[p].ret # Nil
         /\ call[p].after
         /\ call[p].quiet
         /\ call[p].genStart = gen
         /\ returned = gen)
        => handles[call[p].ret].from = cfg

\* C6: once every setter call has returned, each field a setter assigned holds
\* a value some setter assigned to it: no setter's update is lost.
C6_NoLostUpdate ==
    returned = gen =>
        \A f \in Fields : written[f] # {} => cfg[f] \in written[f]

\* C8: every handle that was the cached handle and no longer is has had
\* CloseIdleConnections called on it.
C8_ReplacedHandleDrained ==
    \A t \in published : t # transport => handles[t].closeIdle > 0

\* every attempt a request has sent went out on the handle its getTransport
\* call returned
AttemptsOnOwnHandle ==
    \A p \in Procs :
        call[p].op = "req" =>
            \A i \in 1..Len(sent[p]) : sent[p][i].handle = call[p].ret

\* C7: every attempt of a request, the first and the retries, is sent on the
\* handle its one getTransport call returned, whatever setters and other calls
\* run meanwhile, and no step changes the settings of a constructed handle
\* (steps only add to its CloseIdleConnections count).
C7_RequestKeepsItsHandle ==
    [][/\ AttemptsOnOwnHandle'
       /\ \A t \in 1..Len(handles) :
             /\ handles'[t].settings = handles[t].settings
             /\ handles'[t].closeIdle >= handles[t].closeIdle]_vars

\* a request sent its retry on its handle after a setter, started while the
\* request was in flight, cleared that handle from the cache and drained it
C7_SetterDuringRequest ==
    \E p \in Procs :
        /\ call[p].op = "req"
        /\ Len(sent[p]) = 2
        /\ gen > call[p].genStart
        /\ returned = gen
        /\ transport # call[p].ret
        /\ handles[call[p].ret].closeIdle > 0
        /\ handles[call[p].ret].from # cfg

(***************************************************************************)
(* Properties of calls made one after the other (SpecSeq)                  *)
(***************************************************************************)
Last == hist[Len(hist)]
IsGet(e) == e.kind \in {"get", "req"}

\* the number of handles constructed before the last completed call started
CountBeforeLast == IF Len(hist) = 2 THEN hist[1].count ELSE 0

\* the settings of a handle show the value v a setter gave to field f: flags
\* and the handshake timeout as given, sizes and timeouts when positive (the
\* transport's zero value otherwise), a well-formed proxy address as given,
\* with the other kind of proxy off, and no proxy for an empty address
Reflects(st, f, v) ==
    CASE f = "Insecure" -> st.InsecureSkipVerify = v
      [] f = "HTTP2Enabled" -> st.ForceAttemptHTTP2 = v
      [] f = "TLSHandshakeTimeout" -> st.TLSHandshakeTimeout = v
      [] f = "HttpProxyAddress" ->
            /\ v = "" => st.Proxy = ""
            /\ (v # "" /\ URLParses(v)) => st.Proxy = v
            /\ v # "" => st.DialContext = ""
      [] f = "Socks5ProxyAddress" ->
            /\ v = "" => st.DialContext = ""
            /\ Socks5Accepted(v) => st.DialContext = v
            /\ v # "" => st.Proxy = ""
      [] OTHER -> st[f] = (IF v > 0 THEN v ELSE 0)

C5_SecondCallReusesHandle ==
    (Quiescent /\ Len(hist) = 2 /\ IsGet(hist[1]) /\ IsGet(Last)) =>
        /\ Last.ret = hist[1].ret
        /\ Last.count = hist[1].count
        /\ transport = Last.ret

\* two calls in a row after a setter changed the configuration
C5_TwoCallsAfterSetter ==
    /\ Quiescent
    /\ Len(hist) = 2
    /\ IsGet(hist[1])
    /\ IsGet(Last)
    /\ Last.ret # Nil
    /\ cfg # defaultCfg

(***************************************************************************)
(* Properties of the retry loop (SpecRetry)                                *)
(***************************************************************************)
\* the RetryConfig of TestRetry: three retries on the listed status codes
TestRetryConfig == [nil |-> FALSE, MaxRetries |-> 3, RetryPolicy |-> "codes",
                    RetryDelay |-> "fixed", OnRetry |-> "log"]

\* the statuses of the attempts sent so far (0 for an attempt without response)
RECURSIVE StatusesOf(_)
StatusesOf(s) ==
    IF s = <<>> THEN <<>>
    ELSE <<(IF Head(s).resp.nil THEN 0 ELSE Head(s).resp.StatusCode)>> \o StatusesOf(Tail(s))

\* C9: with MaxRetries = m >= 0 a returned call has sent between 1 and m+1
\* attempts, numbered from 0; every attempt but the last was one the predicate
\* wanted retried; the last either was not, or is attempt m; and the pair
\* returned is the response and error of the last attempt.
C9_AtMostMaxRetriesPlusOne ==
    \A p \in Procs :
        (result[p].set /\ maxRetriesOf(Retry) >= 0) =>
            LET s == sent[p]
                n == Len(s)
                m == maxRetriesOf(Retry)
            IN  /\ n >= 1
                /\ n <= m + 1
                /\ \A i \in 1..n : s[i].attempt = i - 1
                /\ \A i \in 1..(n - 1) : s[i].retry
                /\ ~s[n].retry \/ n = m + 1
                /\ result[p].resp.nil = s[n].resp.nil
                /\ result[p].resp.StatusCode = s[n].resp.StatusCode
                /\ result[p].err = s[n].err

\* all m+1 attempts were sent and the last one still asked for a retry
C9_RetriesExhausted ==
    /\ result[1].set
    /\ maxRetriesOf(Retry) = 2
    /\ Len(sent[1]) = 3
    /\ sent[1][3].retry
    /\ result[1].err = TransportErr

\* C10: the observer is called once per retry, with Attempt = 1, 2, ... in this
\* order, and not otherwise; with the configuration of TestRetry and the
\* responses 500, 502, 200 the call makes two retries, the observer sees
\* attempts 1 and 2, and the status returned is 200.
C10_ObserverOncePerRetry ==
    \A p \in Procs :
        /\ \A i \in 1..Len(events[p]) : events[p][i].Attempt = i
        /\ pc[p] = "rq_send" => Len(events[p]) = Len(sent[p])
        /\ result[p].set => Len(events[p]) + 1 = Len(sent[p]) \/ sent[p] = <<>>
        /\ (Retry = TestRetryConfig /\ result[p].set) =>
              LET st == StatusesOf(sent[p])
              IN  /\ st # <<500>>
                  /\ st # <<500, 502>>
                  /\ (Len(st) >= 3 /\ SubSeq(st, 1, 3) = <<500, 502, 200>>) =>
                        /\ Len(st) = 3
                        /\ Len(events[p]) = 2
                        /\ events[p][1].Status = 500
                        /\ events[p][2].Status = 502
                        /\ result[p].resp.StatusCode = 200
                        /\ result[p].err = NoErr

\* the scenario of TestRetry: responses 500, 502, 200
C10_Scenario ==
    /\ Retry = TestRetryConfig
    /\ result[1].set
    /\ StatusesOf(sent[1]) = <<500, 502, 200>>
    /\ Len(events[1]) = 2

(***************************************************************************)
(* Properties of the retry loop with request bodies (SpecBody)             *)
(***************************************************************************)
\* the request of the call has a GetBody
HasGetBody(p) == call[p].op = "dwr" \/ call[p].input.opt.kind # "none"

\* the status an observer is told for a response (0 when there is none)
StatusSeen(resp) == IF resp.nil THEN 0 ELSE resp.StatusCode

\* C11: attempt 0 is sent with no delay and no observer call before it; for
\* every retry k >= 1 the delay is computed as RetryDelay(k), then the observer
\* is called with Attempt = k, the status (0 without response) and the error of
\* attempt k-1 and that delay, then the loop sleeps for that delay, then the
\* body is re-acquired through GetBody, then attempt k is sent.
C11_RetryStepOrder ==
    \A p \in Procs :
        LET st == steps[p]
            IsStep(i, op, k) == i >= 1 /\ i <= Len(st) /\ st[i].op = op /\ st[i].attempt = k
        IN  /\ \A i \in 1..Len(st) :
                 LET k == st[i].attempt
                 IN  /\ (st[i].op = "Do" /\ k = 0) =>
                            \A j \in 1..(i - 1) : st[j].op = "GetBody" /\ st[j].attempt = 0
                     /\ st[i].op \in {"retryDelay", "onRetry", "Sleep"} => k >= 1
                     /\ st[i].op = "retryDelay" =>
                            /\ IsStep(i - 1, "Do", k - 1)
                            /\ st[i].delay \in RetryDelayValues(retryDelayOf(Retry), k)
                            /\ IsStep(i + 1, "onRetry", k)
                     /\ st[i].op = "onRetry" =>
                            /\ IsStep(i - 1, "retryDelay", k)
                            /\ st[i].delay = st[i - 1].delay
                            /\ IsStep(i + 1, "Sleep", k)
                     /\ st[i].op = "Sleep" =>
                            /\ IsStep(i - 1, "onRetry", k)
                            /\ st[i].delay = st[i - 1].delay
                     /\ (st[i].op = "GetBody" /\ k >= 1) => IsStep(i - 1, "Sleep", k)
                     /\ (st[i].op = "Do" /\ k >= 1) =>
                            IF HasGetBody(p) THEN IsStep(i - 1, "GetBody", k)
                                             ELSE IsStep(i - 1, "Sleep", k)
            /\ \A k \in 1..Len(events[p]) :
                 /\ k <= Len(sent[p])
                 /\ events[p][k].Attempt = k
                 /\ events[p][k].Status = StatusSeen(sent[p][k].resp)
                 /\ events[p][k].Err = sent[p][k].err
                 /\ \E i \in 1..Len(st) :
                        /\ st[i].op = "onRetry"
                        /\ st[i].attempt = k
                        /\ st[i].delay = events[p][k].Delay

\* a call with a body has made two retries, the first after a transport error
\* and the second after a 500, and has returned
C11_TwoRetriesWithBody ==
    /\ result[1].set
    /\ call[1].op = "req"
    /\ HasGetBody(1)
    /\ Len(sent[1]) = 3
    /\ sent[1][1].err = TransportErr
    /\ StatusSeen(sent[1][2].resp) = 500
    /\ Len(events[1]) = 2

\* C12: when a retry is about to be sent, the response of the attempt before
\* it, when there was one, has had its body read to the end and closed.
C12_PreviousBodyDrainedAndClosed ==
    \A p \in Procs :
        (pc[p] = "rq_send" /\ loc[p].attempt >= 1 /\ ~loc[p].resp.nil) =>
            /\ loc[p].resp.closed
            /\ loc[p].resp.read = Len(loc[p].resp.body)

\* C14: every attempt of a RequestWithMethod call with a body option sends the
\* buffer the option materialized, read from its start, and ContentLength is
\* the length of that buffer, however much of the body earlier attempts read.
C14_EveryAttemptSendsWholeBody ==
    \A p \in Procs :
        (call[p].op = "req" /\ call[p].input.opt.kind # "none") =>
            \A i \in 1..Len(sent[p]) :
                /\ sent[p][i].body.pos = 0
                /\ sent[p][i].body.buf = sent[p][1].body.buf
                /\ sent[p][i].body.buf \in Materialized(call[p].input.opt)
                /\ sent[p][i].ContentLength = Len(sent[p][i].body.buf)

\* a multipart body with two fields and a file went out three times, after the
\* first attempt had read a part of it and the second all of it
C14_ThreeSendsAfterPartialRead ==
    /\ call[1].op = "req"
    /\ call[1].input.opt.kind = "FormData"
    /\ call[1].input.opt.pairs = TwoPairs
    /\ call[1].input.opt.file = "memory"
    /\ Len(sent[1]) = 3
    /\ sent[1][1].read > 0
    /\ sent[1][1].read < Len(sent[1][1].body.buf)
    /\ sent[1][2].read = Len(sent[1][2].body.buf)

C16_OnlyFinalOutcomeReturned ==
    \A p \in Procs :
        (result[p].set /\ call[p].op = "req" /\ Len(sent[p]) >= 1) =>
            LET last == sent[p][Len(sent[p])]
                r    == result[p]
            IN  /\ last.err # NoErr => r.err = last.err /\ r.mini.nil
                /\ last.err = NoErr =>
                      /\ r.err = NoErr
                      /\ ~r.mini.nil
                      /\ ~r.mini.Response.nil
                      /\ r.mini.Response.StatusCode = last.resp.StatusCode
                      /\ r.mini.Response.body = last.resp.body
                      /\ r.mini.Request = IF call[p].input.opt.kind = "none" THEN NoRequest
                                           ELSE RequestOf(call[p].input.opt, last.body.buf)

\* a call whose first attempt ended in a transport error and whose last in a
\* 200 has returned a wrapper
C16_ErrorThenResponse ==
    /\ result[1].set
    /\ call[1].op = "req"
    /\ call[1].input.opt.kind = "JSONData"
    /\ Len(sent[1]) = 3
    /\ sent[1][1].err = TransportErr
    /\ sent[1][2].resp.StatusCode = 500
    /\ sent[1][3].resp.StatusCode = 200
    /\ ~result[1].mini.nil

(***************************************************************************)
(* More properties of the retry loop (SpecRetry)                           *)
(***************************************************************************)
\* C13: with client.Retry nil a call sends one attempt, never sleeps and never
\* calls an observer, whatever the attempt ends in.
C13_NilRetrySingleAttempt ==
    \A p \in Procs :
        Retry.nil =>
            /\ Len(sent[p]) <= 1
            /\ events[p] = <<>>
            /\ \A i \in 1..Len(steps[p]) : steps[p][i].op = "Do"
            /\ result[p].set =>
                  /\ Len(sent[p]) = 1
                  /\ steps[p] = <<StepOf("Do", 0, 0)>>

\* with client.Retry nil a call has returned the 500 of its one attempt
C13_NilRetryServerError ==
    /\ Retry.nil
    /\ result[1].set
    /\ Len(sent[1]) = 1
    /\ sent[1][1].resp.StatusCode = 500
    /\ result[1].resp.StatusCode = 500

(***************************************************************************)
(* Inputs that fail before the send, and malformed proxies (SpecSeq)       *)
(***************************************************************************)
\* the URL does not parse or an option cannot be encoded
BadInput(in) ==
    \/ in.url = "bad"
    \/ in.opt.kind = "FormData" /\ in.opt.file \in {"missing", "unreadable", "other"}
    \/ in.opt.kind = "JSONData" /\ ~in.opt.marshals

\* C17: a RequestWithMethod call whose URL does not parse or whose body option
\* cannot be encoded returns an error and no wrapper, sends nothing, calls no
\* observer, and leaves the stored configuration, the cached handle and the
\* handles constructed as they were.
C17_BadInputFailsBeforeSend ==
    [][\A p \in Procs :
          (/\ nops' # nops
           /\ loc'[p].op # "set"
           /\ call'[p].op = "req"
           /\ BadInput(call'[p].input))
          => /\ pc'[p] = "idle"
             /\ result'[p].set
             /\ result'[p].err # NoErr
             /\ result'[p].mini.nil
             /\ result'[p].resp.nil
             /\ sent'[p] = <<>>
             /\ events'[p] = <<>>
             /\ steps'[p] = <<>>
             /\ cfg' = cfg
             /\ transport' = transport
             /\ handles' = handles]_vars

\* a call with a body option that cannot be encoded has failed on a client with
\* a changed configuration and a cached handle
C17_FailedWithCachedHandle ==
    /\ call[1].op = "req"
    /\ BadInput(call[1].input)
    /\ call[1].input.url = "ok"
    /\ result[1].set
    /\ transport # Nil
    /\ cfg # defaultCfg

\* C18: no attempt is sent on a handle built from a configuration with a proxy
\* address that the handle does not use.
C18_NeverSentWithoutConfiguredProxy ==
    \A p \in Procs :
        \A i \in 1..Len(sent[p]) :
            LET h == handles[sent[p][i].handle]
            IN  /\ h.from.Socks5ProxyAddress # "" =>
                      h.settings.DialContext = h.from.Socks5ProxyAddress
                /\ h.from.HttpProxyAddress # "" =>
                      h.settings.Proxy = h.from.HttpProxyAddress

(***************************************************************************)
(* Properties of the response accessors (SpecResp)                         *)
(***************************************************************************)
\* the accessors that return the whole body or decode it
ReadsWhole(c) == c.op \in {"RawData", "RawJSON", "RawNumJSON"}

\* the response as the i-th accessor call left it
AfterCall(i) ==
    IF i = Len(res.calls)
        THEN [Response |-> res.Response, Body |-> res.Body, net |-> res.net,
              bodyCache |-> res.bodyCache, netReads |-> res.netReads]
        ELSE res.calls[i + 1].before

\* C19: all RawData calls on a response return the same bytes, RawJSON and
\* RawNumJSON decode those same bytes, the bytes returned are the whole body,
\* and the wrapper reads the network body at most once: once the bytes are
\* cached no call reads or closes the network body again.
C19_CachedReadIdempotent ==
    /\ res.netReads <= 1
    /\ \A i, j \in 1..Len(res.calls) :
          (ReadsWhole(res.calls[i]) /\ ReadsWhole(res.calls[j])) =>
              res.calls[i].raw = res.calls[j].raw
    /\ \A i \in 1..Len(res.calls) :
          LET c == res.calls[i]
          IN  /\ (ReadsWhole(c) /\ ~c.raw.nil) =>
                    /\ c.raw.data = res.net.data
                    /\ AfterCall(i).bodyCache = c.raw
              /\ ~c.before.bodyCache.nil =>
                    /\ AfterCall(i).net = c.before.net
                    /\ AfterCall(i).netReads = c.before.netReads
                    /\ AfterCall(i).bodyCache = c.before.bodyCache

\* RawData, RawJSON and RawNumJSON were called in this order on a body with two
\* values: RawJSON rejected it, RawNumJSON decoded its first value
C19_ThreeReadsOfOneBody ==
    /\ Len(res.calls) >= 3
    /\ res.calls[1].op = "RawData"
    /\ res.calls[2].op = "RawJSON"
    /\ res.calls[3].op = "RawNumJSON"
    /\ res.calls[1].raw = Bytes(<<"1", " ", "2">>)
    /\ res.calls[2].err = DecodeErr
    /\ res.calls[3].err = NoErr
    /\ res.netReads = 1

\* C20: a ReadStream call made when the body is cached returns, without error,
\* a stream over the cached bytes and leaves the network body as it was: not
\* read, not closed; reading that stream yields the cached bytes and does not
\* touch the network body either.
C20_StreamOverCache ==
    \A i \in 1..Len(res.calls) :
        LET c == res.calls[i]
        IN  (c.op = "ReadStream" /\ ~c.before.bodyCache.nil) =>
                /\ c.err = NoErr
                /\ c.stream.src = "cache"
                /\ c.stream.buf = c.before.bodyCache.data
                /\ AfterCall(i) = c.before
                /\ (i < Len(res.calls) /\ res.calls[i + 1].op = "StreamRead") =>
                      /\ res.calls[i + 1].raw = c.before.bodyCache
                      /\ res.calls[i + 1].err = NoErr
                      /\ AfterCall(i + 1) = c.before

\* after RawData, ReadStream was called, its stream read, and ReadStream called again
C20_TwoStreamsAfterRawData ==
    /\ Len(res.calls) = 4
    /\ res.calls[1].op = "RawData"
    /\ res.calls[1].raw = Bytes(<<"{", "}">>)
    /\ res.calls[2].op = "ReadStream"
    /\ res.calls[3].op = "StreamRead"
    /\ res.calls[4].op = "ReadStream"
    /\ res.calls[4].stream.buf = <<"{", "}">>
    /\ res.net.read = 2

\* C21: once ReadStream has handed the network body to the caller,
\* Response.Body is nil and the cache is empty, and they stay so; every later
\* RawData, RawJSON, RawNumJSON and ReadStream call returns the nil-body error,
\* no bytes, no value and no stream, and neither reads the network body nor
\* changes the response.
C21_NoReadAfterTransfer ==
    \A i \in 1..Len(res.calls) :
        (res.calls[i].op = "ReadStream" /\ res.calls[i].stream.src = "net") =>
            /\ AfterCall(i).Body = "nil"
            /\ AfterCall(i).bodyCache.nil
            /\ \A j \in (i + 1)..Len(res.calls) :
                  LET c == res.calls[j]
                  IN  /\ c.before.Body = "nil"
                      /\ c.before.bodyCache.nil
                      /\ (ReadsWhole(c) \/ c.op = "ReadStream") =>
                            /\ c.err = NilBodyErr
                            /\ c.raw.nil
                            /\ c.value = NoValue
                            /\ c.stream = NoStream
                            /\ AfterCall(j) = c.before

\* ReadStream handed over a body holding a number, then RawData, RawNumJSON
\* and ReadStream were called
C21_ThreeCallsAfterTransfer ==
    /\ Len(res.calls) = 4
    /\ res.net.data = <<"1">>
    /\ res.calls[1].op = "ReadStream"
    /\ res.calls[1].stream.src = "net"
    /\ res.calls[2].op = "RawData"
    /\ res.calls[3].op = "RawNumJSON"
    /\ res.calls[4].op = "ReadStream"

\* C22: Close returns nil.  On a response whose body was neither read nor
\* handed over it reads the body to its end (or to the read error), closes it
\* and sets Response.Body to nil, without caching anything; on any other
\* response (no response, body cached, read, handed over or closed by an
\* earlier Close) it changes nothing, the network body included.
C22_CloseDrainsOnceThenNothing ==
    \A i \in 1..Len(res.calls) :
        LET c  == res.calls[i]
            n0 == c.before.net
            n1 == AfterCall(i).net
        IN  c.op = "Close" =>
                /\ c.err = NoErr
                /\ IF c.before.Response = "set" /\ c.before.Body = "set"
                     THEN /\ AfterCall(i).Body = "nil"
                          /\ AfterCall(i).bodyCache = c.before.bodyCache
                          /\ AfterCall(i).netReads = c.before.netReads
                          /\ n1.closed
                          /\ n1.closes = n0.closes + 1
                          /\ n1.read >= n0.read
                          /\ (~n0.closed /\ ~n0.fails) => n1.read = Len(n1.data)
                          /\ (~n0.closed /\ n0.fails) => n1.read = Len(n1.data) \div 2
                     ELSE AfterCall(i) = c.before

\* Close was called twice on an unread body of three bytes, then after
\* RawData failed once more
C22_ClosedTwiceThenRead ==
    /\ Len(res.calls) = 4
    /\ res.net.data = <<"1", " ", "2">>
    /\ ~res.net.fails
    /\ res.calls[1].op = "Close"
    /\ res.calls[1].before.Body = "set"
    /\ ~res.calls[1].before.net.closed
    /\ res.calls[2].op = "Close"
    /\ res.calls[3].op = "RawData"
    /\ res.calls[3].err = NilBodyErr
    /\ res.calls[4].op = "Close"
    /\ res.net.read = 3
    /\ res.net.closes = 1

(***************************************************************************)
(* Timeout, redirect policy and per-call overrides (SpecOver, SpecAny)     *)
(***************************************************************************)
\* the step takes a RequestWithMethod call of goroutine p past its inputs
RequestStarts(p) ==
    /\ pc[p] = "idle"
    /\ pc'[p] # "idle"
    /\ loc'[p].op = "req"

\* the last *RequestOverride among the options of p's call
OverrideGiven(c) ==
    IF c.input.over = <<>> THEN NilOverride ELSE c.input.over[Len(c.input.over)]

\* C25: a call is made with the timeout and the redirect policy of the last
\* RequestOverride among its options where that sets them, and otherwise with
\* the values SetTimeout and DisableAutoRedirect stored last; the request it
\* builds is the one its other options make.
C25_OverrideElseClientWide ==
    [][\A p \in Procs :
          RequestStarts(p) =>
              LET ov == OverrideGiven(call'[p])
              IN  /\ client'[p].Timeout =
                        IF ~ov.nil /\ ~ov.Timeout.nil THEN ov.Timeout.v ELSE timeout
                  /\ client'[p].CheckRedirect =
                        IF ~ov.nil /\ ~ov.AutoRedirectDisabled.nil
                            THEN ov.AutoRedirectDisabled.v ELSE autoRedirect
                  /\ \E buf \in Materialized(call'[p].input.opt) :
                        loc'[p].request = RequestOf(call'[p].input.opt, buf)]_vars

\* C26: no step of a call that carries a RequestOverride changes the stored
\* timeout, the stored redirect flag or the transport configuration, and when
\* a handle is cached it stays cached and no handle is built; a call without
\* override is made with the stored redirect flag and the stored timeout (30
\* seconds when zero is stored).
C26_OverrideLeavesClientAsItWas ==
    [][\A p \in Procs :
          /\ ((loc[p].op = "req" \/ loc'[p].op = "req") /\ call'[p].op = "req"
                  /\ call'[p].input.over # <<>>) =>
                /\ timeout' = timeout
                /\ autoRedirect' = autoRedirect
                /\ cfg' = cfg
                /\ transport # Nil => transport' = transport /\ handles' = handles
          /\ (RequestStarts(p) /\ call'[p].input.over = <<>>) =>
                /\ client'[p].Timeout = IF timeout # 0 THEN timeout ELSE DefaultTimeout
                /\ client'[p].CheckRedirect = autoRedirect]_vars

\* after SetTimeout(15) and a request that built the handle, a request with
\* two overrides, the last of which disables redirects only, is being sent on
\* that handle
C26_OverrideCallOnCachedHandle ==
    /\ Len(hist) = 2
    /\ hist[1].kind = "SetTimeout" /\ hist[1].v = TestTimeout
    /\ hist[2].kind = "req" /\ hist[2].ret = 1
    /\ pc[1] = "rq_send"
    /\ Len(call[1].input.over) = 2
    /\ transport = 1
    /\ Len(handles) = 1
    /\ timeout = TestTimeout
    /\ call[1].input.over[2] = RequestOverride(NilPtr, Ptr(TRUE))
    /\ client[1] = [Timeout |-> TestTimeout, CheckRedirect |-> TRUE]

\* a call of SetTimeout or DisableAutoRedirect in the log
StoresOnly(e) == e.kind \in {"SetTimeout", "DisableAutoRedirect"}

\* the handle in the cache, and the number of handles built, when the i-th
\* call of the log returned
CachedAfter(i) ==
    IF i = 0 \/ hist[i].kind \in {"set", "fail"} THEN Nil ELSE hist[i].ret
BuiltAfter(i) == IF i = 0 THEN 0 ELSE hist[i].count

\* C28 as stated: after SetTimeout or DisableAutoRedirect returns the cache is
\* empty, and the next request builds a new handle.
C28_TimeoutAndRedirectInvalidate ==
    \A i \in 1..Len(hist) :
        StoresOnly(hist[i]) =>
            /\ hist[i].ret = Nil
            /\ (i < Len(hist) /\ hist[i + 1].kind = "req") =>
                  hist[i + 1].count = hist[i].count + 1

\* C28, amended: SetTimeout and DisableAutoRedirect leave the cache as it is
\* and build nothing, and the next request uses the handle that was cached,
\* building one only when none was.
C28_TimeoutAndRedirectKeepHandle ==
    \A i \in 1..Len(hist) :
        StoresOnly(hist[i]) =>
            /\ hist[i].ret = CachedAfter(i - 1)
            /\ hist[i].count = BuiltAfter(i - 1)
            /\ (i = Len(hist) /\ Quiescent) => transport = hist[i].ret
            /\ (i < Len(hist) /\ hist[i + 1].kind = "req") =>
                  IF hist[i].ret # Nil
                    THEN /\ hist[i + 1].ret = hist[i].ret
                         /\ hist[i + 1].count = hist[i].count
                    ELSE /\ hist[i + 1].count = hist[i].count + 1
                         /\ hist[i + 1].ret = hist[i + 1].count

\* three requests on one handle, SetTimeout(15) after the first and
\* DisableAutoRedirect(true) after the second
C28_ThreeRequestsOneHandle ==
    /\ Len(hist) = 5
    /\ hist[1].kind = "req"
    /\ hist[2].kind = "SetTimeout" /\ hist[2].v = TestTimeout
    /\ hist[3].kind = "req"
    /\ hist[4].kind = "DisableAutoRedirect" /\ hist[4].v = TRUE
    /\ hist[5].kind = "req"
    /\ \A i \in 1..5 : hist[i].ret = 1
    /\ Len(handles) = 1
    /\ client[1] = [Timeout |-> TestTimeout, CheckRedirect |-> TRUE]

\* C29: when a first request has built the transport and then SetInsecure(true),
\* a request, DisableAutoRedirect(true) and a request follow, the handle in
\* the cache, which the last request used, is the one the first request built.
C29_HandleSurvivesSetInsecure ==
    \A k \in 1..Len(hist) :
        (/\ k + 4 <= Len(hist)
         /\ hist[k].kind = "req"
         /\ hist[k + 1].kind = "set" /\ hist[k + 1].f = "Insecure" /\ hist[k + 1].v = TRUE
         /\ hist[k + 2].kind = "req"
         /\ hist[k + 3].kind = "DisableAutoRedirect" /\ hist[k + 3].v = TRUE
         /\ hist[k + 4].kind = "req")
        => /\ hist[k + 4].ret = hist[k].ret
           /\ hist[k + 3].ret = hist[k].ret

C23_PredicatesRetryErrorsAndListedStatuses ==
    /\ (fn.op = "defaultRetryPolicy" /\ Returned(fn)) =>
          fn.out = (\/ fn.err # NoErr
                    \/ /\ ~fn.resp.nil
                       /\ fn.resp.StatusCode \in 500..599)
    /\ (fn.op = "RetryPolicyWithStatusCodes" /\ Returned(fn)) =>
          fn.out = (\/ fn.err # NoErr
                    \/ /\ ~fn.resp.nil
                       /\ fn.resp.StatusCode \in fn.statusCodes)

C23_Status599Retried ==
    /\ fn.op = "defaultRetryPolicy"
    /\ Returned(fn)
    /\ fn.err = NoErr
    /\ ~fn.resp.nil
    /\ fn.resp.StatusCode = 599
    /\ fn.out

\* the value base * 2^(attempt-1) as bits, with no width
ExactDelay(baseDelay, attempt) == {i + (attempt - 1) : i \in Int64Of(baseDelay)}

\* C24: RetryExponentialDelay(base, 0)(attempt) is base * 2^(attempt-1) for
\* every attempt >= 1, is not above the delay of the next attempt, and for an
\* attempt <= 0 is the delay of attempt 1.
C24_ExponentialDelayDoubles ==
    (fn.op = "RetryExponentialDelay" /\ Returned(fn)) =>
        LET a == IF fn.attempt <= 0 THEN 1 ELSE fn.attempt
        IN  /\ ~Negative64(fn.out)
            /\ fn.out = ExactDelay(fn.baseDelay, a)
            /\ ~Less64(RetryExponentialDelay(fn.baseDelay, a + 1), fn.out)

\* the header keys the options of a list may set, and the positions in the list
\* of the options that set key K, with the values each may leave under it
HeaderKeys == {"Authorization", "Content-Type", "X-A"}
ValuesFor(o, K) ==
    CASE o.kind = "Auth" -> IF K = "Authorization" THEN {BasicAuth(o.user, o.pass)} ELSE {}
      [] o.kind = "Headers" ->
            {o.pairs[i].v : i \in {j \in 1..Len(o.pairs) : CanonicalHeaderKey(o.pairs[j].k) = K}}
      [] o.kind \in BodyKinds -> IF K = "Content-Type" THEN {ContentTypeOf(o)} ELSE {}
      [] OTHER -> {}
Setting(opts, K) == {i \in 1..Len(opts) : ValuesFor(opts[i], K) # {}}
OfKind(opts, kinds) == {i \in 1..Len(opts) : opts[i].kind \in kinds}
Latest(S) == CHOOSE i \in S : \A j \in S : j <= i

\* every header key holds one value, one of those the last option that sets the
\* key gives it; a key no option sets is absent
LaterHeaderWins(opts, request) ==
    /\ \A e \in request.Header : e[1] \in HeaderKeys
    /\ \A K \in HeaderKeys :
          LET held == {e[2] : e \in {x \in request.Header : x[1] = K}}
          IN  IF Setting(opts, K) = {} THEN held = {}
              ELSE \E v \in ValuesFor(opts[Latest(Setting(opts, K))], K) : held = {v}

\* Body, GetBody and ContentLength are those of one buffer of the last body
\* option; without body option there is no body
LaterBodyWins(opts, request) ==
    LET S == OfKind(opts, BodyKinds)
    IN  IF S = {} THEN request.body = NoRequest
        ELSE \E buf \in Materialized(opts[Latest(S)]) :
                /\ request.body.Body = NewReader(buf)
                /\ request.body.snapshot = NewReader(buf)
                /\ request.body.GetBody = "copy"
                /\ request.body.ContentLength = Len(buf)

\* the query is that of the last Params option
LaterParamsWin(opts, request) ==
    LET S == OfKind(opts, {"Params"})
    IN  request.RawQuery = IF S = {} THEN <<>> ELSE Encode(opts[Latest(S)].pairs)

\* under every name, the cookies sent are those of the last Cookies option that
\* has the name
LaterCookieWins(opts, request) ==
    \A name \in {"a", "b"} :
        LET S == {i \in OfKind(opts, {"Cookies"}) :
                     \E c \in 1..Len(opts[i].cookies) : opts[i].cookies[c].Name = name}
            named(cs) == SelectSeq(cs, LAMBDA c : c.Name = name)
        IN  named(request.Cookie) = IF S = {} THEN <<>> ELSE named(opts[Latest(S)].cookies)

\* the cookies of every Cookies option, in the order given
RECURSIVE AllCookies(_)
AllCookies(opts) ==
    IF opts = <<>> THEN <<>>
    ELSE (IF Head(opts).kind = "Cookies" THEN Head(opts).cookies ELSE <<>>)
         \o AllCookies(Tail(opts))

\* the options were applied: none of them returned an error
Applied == fn.op = "reqOptions" /\ Returned(fn) /\ fn.out.err = NoErr

\* C27 as stated: after the options of a call were applied, in every kind the
\* later option has overridden the earlier one: headers per key, credentials,
\* body with Content-Type and Content-Length, query, and cookies per name.
C27_LaterOptionOverrides ==
    Applied =>
        /\ LaterHeaderWins(fn.opts, fn.out.request)
        /\ LaterBodyWins(fn.opts, fn.out.request)
        /\ LaterParamsWin(fn.opts, fn.out.request)
        /\ LaterCookieWins(fn.opts, fn.out.request)

\* C27 amended: the later option has overridden the earlier one in every kind
\* but Cookies: headers per key, credentials, body with Content-Type and
\* Content-Length, query; the cookies of all Cookies options are sent, in the
\* order given.
C27_LaterOverridesCookiesAccumulate ==
    Applied =>
        /\ LaterHeaderWins(fn.opts, fn.out.request)
        /\ LaterBodyWins(fn.opts, fn.out.request)
        /\ LaterParamsWin(fn.opts, fn.out.request)
        /\ fn.out.request.Cookie = AllCookies(fn.opts)

C27_TwoHeadersSameKey ==
    /\ Applied
    /\ Len(fn.opts) = 2
    /\ fn.opts[1] = [kind |-> "Headers", pairs |-> <<[k |-> "x-a", v |-> "1"]>>]
    /\ fn.opts[2].kind = "Headers"
    /\ fn.out.request.Header = {<<"X-A", "2">>, <<"Content-Type", "text/plain">>}

\* a request has started: one has returned or is running
RequestStarted ==
    \/ \E i \in 1..Len(hist) : hist[i].kind \in {"req", "fail"}
    \/ \E p \in Procs : loc[p].op = "req"

\* C31: before its first call a new client has timeout 30, TLS verification on,
\* HTTP/2 enabled, redirects followed, no proxy, no retry configuration and an
\* empty transport cache; no handle exists until a request has started, and
\* when the first call is a request it builds handle 1 from these defaults.
C31_NewClientDefaults ==
    /\ nops = 0 =>
          /\ timeout = 30
          /\ ~autoRedirect
          /\ ~cfg.Insecure
          /\ cfg.HTTP2Enabled
          /\ cfg.HttpProxyAddress = "" /\ cfg.Socks5ProxyAddress = ""
          /\ Retry.nil
          /\ transport = Nil
    /\ ~RequestStarted => (handles = <<>> /\ transport = Nil)
    /\ (hist # <<>> /\ hist[1].kind = "req") =>
          /\ hist[1].ret = 1
          /\ ~handles[1].settings.InsecureSkipVerify
          /\ handles[1].settings.ForceAttemptHTTP2
          /\ handles[1].settings.Proxy = "" /\ handles[1].settings.DialContext = ""

C31_HandleBuiltByFirstRequest ==
    /\ Len(hist) = 3
    /\ hist[1].kind = "set" /\ hist[1].count = 0
    /\ hist[2].kind = "SetTimeout" /\ hist[2].count = 0
    /\ hist[3].kind = "req" /\ hist[3].ret = 1
    /\ Len(handles) = 1

\* C32: the response inside a wrapper RequestWithMethod returned has a body the
\* retry loop has not closed, whatever the status.
C32_ReturnedBodyNotClosed ==
    \A p \in Procs :
        (result[p].set /\ ~result[p].mini.nil /\ ~result[p].mini.Response.nil) =>
            ~result[p].mini.Response.closed

\* C33: a returned request has sent at least one attempt, and it has not
\* returned a nil error together with a wrapper whose Response is nil.
C33_AtLeastOneAttemptAndNoEmptyWrapper ==
    \A p \in Procs :
        (result[p].set /\ call[p].op = "req" /\ InputError(call[p].input) = NoErr) =>
            /\ Len(sent[p]) >= 1
            /\ ~(result[p].err = NoErr /\ ~result[p].mini.nil /\ result[p].mini.Response.nil)

\* C34: after any sequence of accessor and Close calls, a populated body cache
\* goes with a nil Response.Body, and Close was called on the network body at
\* most once.
C34_CacheMeansNoBodyAndOneClose ==
    ~res.nil =>
        /\ ~res.bodyCache.nil => res.Body = "nil"
        /\ res.net.closes <= 1

C34_CloseAfterRawData ==
    /\ ~res.nil
    /\ Len(res.calls) = 3
    /\ res.calls[1].op = "RawData" /\ res.calls[1].err = NoErr
    /\ res.calls[2].op = "Close"
    /\ res.calls[3].op = "Close"
    /\ ~res.bodyCache.nil
    /\ res.net.closes = 1

\* the i-th call of the log read the network body and the read failed
ReadFailed(i) ==
    /\ res.calls[i].op \in {"RawData", "RawJSON", "RawNumJSON"}
    /\ res.calls[i].err \in {NetReadErr, ClosedReadErr}

\* C35: when the network read of a RawData fails, the call leaves the cache
\* empty, the network body closed and Response.Body nil, and every later
\* RawData, RawJSON, RawNumJSON and ReadStream returns an error and no data,
\* value or stream.
C35_FailedReadStaysFailed ==
    ~res.nil =>
        \A i \in 1..Len(res.calls) :
            ReadFailed(i) =>
                /\ AfterCall(i).bodyCache.nil
                /\ AfterCall(i).net.closed
                /\ AfterCall(i).Body = "nil"
                /\ \A j \in (i + 1)..Len(res.calls) :
                      res.calls[j].op \in {"RawData", "RawJSON", "RawNumJSON", "ReadStream"} =>
                          /\ res.calls[j].err # NoErr
                          /\ res.calls[j].raw = NilBytes
                          /\ res.calls[j].value = NoValue
                          /\ res.calls[j].stream = NoStream

C35_FourCallsAfterHalfRead ==
    /\ ~res.nil
    /\ Len(res.calls) = 4
    /\ res.calls[1].op = "RawData" /\ res.calls[1].err = NetReadErr
    /\ res.calls[1].before.net.data = <<"1", " ", "2">>
    /\ res.calls[2].op = "RawJSON"
    /\ res.calls[3].op = "ReadStream"
    /\ res.calls[4].op = "RawData"
    /\ res.net.read = 1

\* C36: the stored configuration never holds both an HTTP proxy URL and a
\* SOCKS5 proxy address, whatever setters have run or are running.
C36_AtMostOneProxy ==
    cfg.HttpProxyAddress = "" \/ cfg.Socks5ProxyAddress = ""

C36_BothProxiesSetWhileAnotherRuns ==
    /\ mode = "proxy"
    /\ returned >= 2
    /\ GoodSocks5 \in written["Socks5ProxyAddress"]
    /\ GoodHttpProxy \in written["HttpProxyAddress"]
    /\ cfg.HttpProxyAddress = GoodHttpProxy
    /\ \E p \in Procs : pc[p] = "set_clear" /\ loc[p].f = "HttpProxyAddress"


\* C37: RetryCombinePolicies(p1..pn) answers true for a response and an error
\* exactly when at least one pi answers true for them, and false when it has no
\* policies; RetryPolicyWithErrorCheck(check) answers check(err) when there is
\* an error and false when there is none.
C37_CombineIsAnyAndErrorCheckAsksCheck ==
    /\ (fn.op = "RetryCombinePolicies" /\ Returned(fn)) =>
          /\ fn.out = (\E i \in 1..Len(fn.policies) :
                           PolicyAnswer(fn.policies[i], fn.resp, fn.err))
          /\ fn.policies = <<>> => ~fn.out
    /\ (fn.op = "RetryPolicyWithErrorCheck" /\ Returned(fn)) =>
          /\ fn.err # NoErr => fn.out = (fn.err \in fn.check)
          /\ fn.err = NoErr => ~fn.out

C37_SecondPolicyAnswersTrue ==
    /\ fn.op = "RetryCombinePolicies"
    /\ Returned(fn)
    /\ Len(fn.policies) = 2
    /\ fn.policies[1].kind = "check"
    /\ fn.policies[2].kind = "check"
    /\ fn.err = NetReadErr
    /\ ~PolicyAnswer(fn.policies[1], fn.resp, fn.err)
    /\ PolicyAnswer(fn.policies[2], fn.resp, fn.err)
    /\ fn.out

\* C38: BackoffBaseForWindow(window, maxRetries) returns an error for
\* maxRetries <= 0; for every maxRetries >= 1 it returns, without panicking, a
\* base whose delay for the last retry, base * 2^(maxRetries-1), is not above
\* the window. RPMToMinInterval(rpm) returns an error for rpm <= 0 and otherwise
\* the quotient of one minute by rpm.
C38_BackoffBaseFitsWindow ==
    /\ (fn.op = "BackoffBaseForWindow" /\ Returned(fn)) =>
          /\ fn.maxRetries <= 0 => (~fn.out.panics /\ fn.out.err # NoErr)
          /\ fn.maxRetries >= 1 =>
                /\ ~fn.out.panics
                /\ fn.out.err = NoErr
                /\ ~Negative64(fn.out.val)
                /\ ~Less64(fn.window, DelayOfBase(fn.out.val, fn.maxRetries))
    /\ (fn.op = "RPMToMinInterval" /\ Returned(fn)) =>
          /\ ~fn.out.panics
          /\ fn.rpm <= 0 => fn.out.err # NoErr
          /\ fn.rpm >= 1 =>
                LET q == fn.out.val
                    rpm == Int64Of(fn.rpm)
                IN  /\ fn.out.err = NoErr
                    /\ ~Negative64(q)
                    /\ ~Less64(Minute, Mul64(q, rpm))
                    /\ Less64(Minute, Mul64(Add64(q, Int64Of(1)), rpm))

\* the offset just after line k of the stream, the line that ends at an offset,
\* and what the lines a..b of the stream say
EndOfLine(k) == Len(StreamOf(SubSeq(sse.lines, 1, k), sse.partial /\ k = Len(sse.lines)))
LineAt(off) == CHOOSE k \in 0..Len(sse.lines) : EndOfLine(k) = off
Blank(k) == sse.lines[k].field = ""
Content(a, b) == {k \in a..b : sse.lines[k].field \in {"data", "event", "id"}}
LastValue(a, b, field) ==
    LET at == {k \in a..b : sse.lines[k].field = field}
    IN  IF at = {} THEN <<>> ELSE sse.lines[CHOOSE k \in at : \A j \in at : j <= k].value
DataValues(a, b) ==
    LET at == {k \in a..b : sse.lines[k].field = "data"}
        nth(n) == CHOOSE k \in at : Cardinality({j \in at : j <= k}) = n
    IN  [n \in 1..Cardinality(at) |-> sse.lines[nth(n)].value]
Said(a, b) ==
    SSEEvent(LastValue(a, b, "event"), Join(DataValues(a, b), "\n"), LastValue(a, b, "id"),
             IF \E k \in a..b : sse.lines[k].field = "retry" THEN 5 ELSE 0)

\* no blank line among the lines a..b comes after a data, event or id line
NothingToEmit(a, b) == \A k \in a..b : Blank(k) => Content(a, k - 1) = {}

\* a reader has been made
HasReader == sse.pc # "none"

\* the channel has delivered, in order, the events ReadEvent returned, all but
\* one the goroutine is waiting to send
DeliveredAsRead ==
    /\ Len(sse.reads) = Len(sse.received) + (IF sse.pc = "send" THEN 1 ELSE 0)
    /\ \A i \in 1..Len(sse.received) : sse.received[i] = sse.reads[i].event

\* every event ReadEvent returned ends at a blank line, starts where the one
\* before ended, says what its lines say, has a data, event or id line, and
\* passed no earlier blank line that had one before it
ReadAtBlankLines ==
    \A i \in 1..Len(sse.reads) :
        LET a == LineAt(sse.reads[i].from) + 1
            b == LineAt(sse.reads[i].to)
        IN  /\ sse.reads[i].from = (IF i = 1 THEN 0 ELSE sse.reads[i - 1].to)
            /\ Blank(b)
            /\ Content(a, b - 1) # {}
            /\ NothingToEmit(a, b - 1)
            /\ sse.reads[i].event = Said(a, b - 1)

\* the channel is closed by the first error of ReadEvent and not before, with
\* every event read delivered and only an event without its blank line left
ClosedAtFirstError ==
    /\ sse.closed = (sse.err # NoErr)
    /\ sse.calls = Len(sse.reads) + (IF sse.closed THEN 1 ELSE 0)
    /\ sse.closed =>
          /\ sse.err = sse.ending
          /\ Len(sse.received) = Len(sse.reads)
          /\ NothingToEmit(LineAt(IF sse.reads = <<>> THEN 0
                                  ELSE sse.reads[Len(sse.reads)].to) + 1,
                           IF sse.partial THEN Len(sse.lines) - 1 ELSE Len(sse.lines))

\* C39: the channel of Events delivers, in the order of the stream, exactly the
\* events successive ReadEvent calls return; an event is returned only at a
\* blank line and only if it has data, an event name or an id, and an event
\* without its blank line is dropped; and the channel is closed after the first
\* ReadEvent error, which comes unless the consumer stops receiving.
C39_EventsDeliversReadEvents ==
    /\ [](HasReader => (DeliveredAsRead /\ ReadAtBlankLines /\ ClosedAtFirstError))
    /\ <>(HasReader /\ (sse.closed \/ sse.stopped))

C39_TwoEventsThenClosed ==
    /\ mode = "sse"
    /\ HasReader
    /\ sse.closed
    /\ ~sse.stopped
    /\ Len(sse.received) = 2
    /\ sse.received[1].Data = <<"y">>
    /\ sse.received[2].ID = <<"1">>
    /\ sse.received[2].Data = <<>>
====
